---------------------------- MODULE Spec2Model ----------------------------
(***************************************************************************)
(* A model of the CV parsing core (src/CVParser/parsers.py, utils.py and   *)
(* the OCR fallback of extractors.py).                                     *)
(*                                                                         *)
(* A Python str is a sequence of characters; a character is a one-element  *)
(* TLA+ string, or a short name for a character that has no ASCII form     *)
(* ("NL" line feed, "CR" carriage return, "TAB", "ZWSP" U+200B, "BOM"      *)
(* U+FEFF, "NBSP" U+00A0, "ENDASH", "EMDASH", "BULLET", "agrave"/"Agrave"  *)
(* for a/A grave).                                                         *)
(* Regular expressions are abstract syntax trees matched by a backtracking *)
(* matcher that enumerates match ends in the priority order of Python's re.*)
(***************************************************************************)
EXTENDS Integers, Sequences, FiniteSets, TLC

VARIABLES pc, callee, arg, ret

vars == <<pc, callee, arg, ret>>

(***************************************************************************)
(* Characters                                                              *)
(***************************************************************************)
UpperSeq == <<"A","B","C","D","E","F","G","H","I","J","K","L","M",
              "N","O","P","Q","R","S","T","U","V","W","X","Y","Z","Agrave">>

LowerSeq == <<"a","b","c","d","e","f","g","h","i","j","k","l","m",
              "n","o","p","q","r","s","t","u","v","w","x","y","z","agrave">>

DigitSeq == <<"0","1","2","3","4","5","6","7","8","9">>

Range(f) == {f[i] : i \in DOMAIN f}

Upper == Range(UpperSeq)

Lower == Range(LowerSeq)

AsciiUpper == Upper \ {"Agrave"}

AsciiLower == Lower \ {"agrave"}

Latin1 == {"Agrave", "agrave"}

Alpha == Upper \cup Lower

Digit == Range(DigitSeq)

WordCh == Alpha \cup Digit \cup {"_"}

\* str.isspace(), \s: "NBSP" is U+00A0, the no-break space
Space == {" ", "TAB", "NL", "CR", "NBSP"}

IndexOf(seq, c) == CHOOSE i \in DOMAIN seq : seq[i] = c

ToLower(c) == IF c \in Upper THEN LowerSeq[IndexOf(UpperSeq, c)] ELSE c

ToUpper(c) == IF c \in Lower THEN UpperSeq[IndexOf(LowerSeq, c)] ELSE c

DigitVal(c) == IndexOf(DigitSeq, c) - 1

DigitChar(n) == DigitSeq[n + 1]

(***************************************************************************)
(* Strings                                                                 *)
(***************************************************************************)
Max(a, b) == IF a >= b THEN a ELSE b

Min(a, b) == IF a <= b THEN a ELSE b

Slice(s, i, j) == SubSeq(s, i, j - 1)

FirstN(s, n) == SubSeq(s, 1, Min(n, Len(s)))

MapSeq(F(_), s) == [i \in DOMAIN s |-> F(s[i])]

Lowered(s) == [i \in DOMAIN s |-> ToLower(s[i])]

StartsWith(s, p) == Len(p) <= Len(s) /\ SubSeq(s, 1, Len(p)) = p

EndsWith(s, p) == Len(p) <= Len(s) /\ SubSeq(s, Len(s) - Len(p) + 1, Len(s)) = p

Find(s, p) ==
  LET hits == {i \in 1..(Len(s) - Len(p) + 1) : SubSeq(s, i, i + Len(p) - 1) = p}
  IN  IF hits = {} THEN 0 ELSE CHOOSE i \in hits : \A j \in hits : i <= j

Contains(s, p) == Find(s, p) # 0

\* str.strip(chars) / str.rstrip(chars)
LStripOf(s, cs) ==
  LET keep == {i \in DOMAIN s : s[i] \notin cs}
  IN  IF keep = {} THEN <<>>
      ELSE SubSeq(s, CHOOSE i \in keep : \A j \in keep : i <= j, Len(s))

RStripOf(s, cs) ==
  LET keep == {i \in DOMAIN s : s[i] \notin cs}
  IN  IF keep = {} THEN <<>>
      ELSE SubSeq(s, 1, CHOOSE i \in keep : \A j \in keep : i >= j)

StripOf(s, cs) == LStripOf(RStripOf(s, cs), cs)

Strip(s) == StripOf(s, Space)

\* sep.join(parts)
RECURSIVE Join(_, _)
Join(parts, sep) ==
  IF parts = <<>> THEN <<>>
  ELSE IF Len(parts) = 1 THEN parts[1]
  ELSE Join(SubSeq(parts, 1, Len(parts) \div 2), sep) \o sep
       \o Join(SubSeq(parts, Len(parts) \div 2 + 1, Len(parts)), sep)

\* str.splitlines(): a line ends at LF, CR or CR LF; no empty last line
LinesAt(s, brk) ==
  LET after(k) == IF k = 0 THEN 1
                  ELSE IF s[brk[k]] = "CR" /\ brk[k] < Len(s) /\ s[brk[k] + 1] = "NL"
                       THEN brk[k] + 2 ELSE brk[k] + 1
      n == IF after(Len(brk)) <= Len(s) THEN Len(brk) + 1 ELSE Len(brk)
  IN  SubSeq([k \in 1..n |->
                SubSeq(s, after(k - 1), IF k <= Len(brk) THEN brk[k] - 1 ELSE Len(s))],
             1, n)

\* brk: the positions of the line ends, the LF of a CR LF being part of the CR's
SplitLines(s) ==
  CHOOSE out \in
    {LinesAt(s, brk) :
       brk \in {SelectSeq([i \in DOMAIN s |-> i],
                          LAMBDA i : \/ s[i] = "CR"
                                     \/ s[i] = "NL" /\ (i = 1 \/ s[i - 1] # "CR"))}} : TRUE

\* str.split(): the maximal runs of non-whitespace
RECURSIVE SplitWS(_)
SplitWS(s) ==
  LET t == LStripOf(s, Space)
  IN  IF t = <<>> THEN <<>>
      ELSE LET sp == {i \in DOMAIN t : t[i] \in Space}
               e  == IF sp = {} THEN Len(t) + 1
                     ELSE CHOOSE i \in sp : \A j \in sp : i <= j
           IN  <<SubSeq(t, 1, e - 1)>> \o SplitWS(SubSeq(t, e, Len(t)))

RECURSIVE ReplaceAll(_, _, _)
ReplaceAll(s, old, new) ==
  LET i == Find(s, old)
  IN  IF i = 0 THEN s
      ELSE SubSeq(s, 1, i - 1) \o new
           \o ReplaceAll(SubSeq(s, i + Len(old), Len(s)), old, new)

SelectIdx(s, Keep(_)) ==
  LET F[i \in 0..Len(s)] ==
        IF i = 0 THEN <<>>
        ELSE IF Keep(s[i]) THEN Append(F[i - 1], s[i]) ELSE F[i - 1]
  IN  F[Len(s)]

\* str.isalpha(), str.isupper(), str.capitalize()
IsAlphaStr(s) == s # <<>> /\ \A i \in DOMAIN s : s[i] \in Alpha

IsUpperStr(s) ==
  /\ \E i \in DOMAIN s : s[i] \in Upper
  /\ \A i \in DOMAIN s : s[i] \notin Lower

Capitalize(s) ==
  [i \in DOMAIN s |-> IF i = 1 THEN ToUpper(s[i]) ELSE ToLower(s[i])]

\* int(s) and f"{n:0wd}" for digit strings
RECURSIVE IntOf(_)
IntOf(s) ==
  IF s = <<>> THEN 0 ELSE 10 * IntOf(SubSeq(s, 1, Len(s) - 1)) + DigitVal(s[Len(s)])

RECURSIVE Digits(_)
Digits(n) == IF n < 10 THEN <<DigitChar(n)>> ELSE Digits(n \div 10) \o <<DigitChar(n % 10)>>

RECURSIVE ZeroPad(_, _)
ZeroPad(s, w) == IF Len(s) >= w THEN s ELSE ZeroPad(<<"0">> \o s, w)

Fmt(n, w) == ZeroPad(Digits(n), w)

\* the elements of set S of integers as an ascending sequence
SortedSeq(S) == [k \in 1..Cardinality(S) |-> CHOOSE i \in S : Cardinality({j \in S : j <= i}) = k]

\* the elements of a sequence without repetition, in order of first occurrence
Dedupe(s) ==
  LET first == {i \in DOMAIN s : \A j \in 1..(i - 1) : s[j] # s[i]}
      idx   == SortedSeq(first)
  IN  [k \in DOMAIN idx |-> s[idx[k]]]

RECURSIVE FlatMap(_, _)
FlatMap(F(_), s) ==
  IF s = <<>> THEN <<>>
  ELSE IF Len(s) = 1 THEN F(s[1])
  ELSE FlatMap(F, SubSeq(s, 1, Len(s) \div 2)) \o FlatMap(F, SubSeq(s, Len(s) \div 2 + 1, Len(s)))

(***************************************************************************)
(* Regular expressions (Python's re).  A position is the index of the next *)
(* character to read, 1..Len(s)+1.  Ends(re, s, i, ic) lists the positions *)
(* at which a match of re that starts at i can end, most preferred first   *)
(* (the order in which re's backtracking tries them); ic is re.I.          *)
(***************************************************************************)
Cls(S) == [t |-> "set", s |-> S]

NotCls(S) == [t |-> "nset", s |-> S]

Cat(a) == [t |-> "cat", a |-> a]

Alt(a) == [t |-> "alt", a |-> a]

\* hi = -1: unbounded
Rep(r, lo, hi) == [t |-> "rep", r |-> r, lo |-> lo, hi |-> hi, lazy |-> FALSE]

LazyRep(r, lo, hi) == [t |-> "rep", r |-> r, lo |-> lo, hi |-> hi, lazy |-> TRUE]

Star(r) == Rep(r, 0, -1)

Plus(r) == Rep(r, 1, -1)

Opt(r) == Rep(r, 0, 1)

Lit(w) == Cat([i \in DOMAIN w |-> Cls({w[i]})])

WordB == [t |-> "wb"]

Bol == [t |-> "bol"]

Eol == [t |-> "eol"]

AnyCh == NotCls({"NL"})

ReW == Cls(WordCh)

ReNotW == NotCls(WordCh)

ReD == Cls(Digit)

ReS == Cls(Space)

InCls(c, S, ic) == c \in S \/ (ic /\ (ToLower(c) \in S \/ ToUpper(c) \in S))

AtWordB(s, i) ==
  LET before == i > 1 /\ s[i - 1] \in WordCh
      after  == i <= Len(s) /\ s[i] \in WordCh
  IN  before # after

RECURSIVE Ends(_, _, _, _)
RECURSIVE CatEnds(_, _, _, _, _)
RECURSIVE AltEnds(_, _, _, _, _)
RECURSIVE RepEnds(_, _, _, _, _, _)
RECURSIVE RepFrom(_, _, _, _, _, _)

Ends(re, s, i, ic) ==
  CASE re.t = "set"  -> IF i <= Len(s) /\ InCls(s[i], re.s, ic) THEN <<i + 1>> ELSE <<>>
    [] re.t = "nset" -> IF i <= Len(s) /\ ~InCls(s[i], re.s, ic) THEN <<i + 1>> ELSE <<>>
    [] re.t = "wb"   -> IF AtWordB(s, i) THEN <<i>> ELSE <<>>
    [] re.t = "bol"  -> IF i = 1 THEN <<i>> ELSE <<>>
    [] re.t = "eol"  -> IF i = Len(s) + 1 \/ (i = Len(s) /\ s[i] = "NL") THEN <<i>> ELSE <<>>
    [] re.t = "cat"  -> CatEnds(re.a, 1, s, <<i>>, ic)
    [] re.t = "alt"  -> Dedupe(AltEnds(re.a, 1, s, i, ic))
    [] re.t = "rep"  -> Dedupe(RepEnds(re, re.lo, re.hi, s, i, ic))

\* the parts a[k..] matched one after the other from each of the starts
CatEnds(a, k, s, starts, ic) ==
  IF k > Len(a) \/ starts = <<>> THEN starts
  ELSE CatEnds(a, k + 1, s,
               Dedupe(FlatMap(LAMBDA p : Ends(a[k], s, p, ic), starts)), ic)

AltEnds(a, k, s, i, ic) ==
  IF k > Len(a) THEN <<>> ELSE Ends(a[k], s, i, ic) \o AltEnds(a, k + 1, s, i, ic)

\* a repeated character class: the run of matching characters from i gives the ends
ClsRepEnds(re, s, i, ic) ==
  LET ok(j) == IF re.r.t = "set" THEN InCls(s[j], re.r.s, ic) ELSE ~InCls(s[j], re.r.s, ic)
      cap   == IF re.hi < 0 THEN Len(s) - i + 1 ELSE Min(re.hi, Len(s) - i + 1)
      bad   == {j \in i..(i + cap - 1) : ~ok(j)}
      n     == IF bad = {} THEN cap ELSE (CHOOSE j \in bad : \A k \in bad : j <= k) - i
  IN  IF n < re.lo THEN <<>>
      ELSE [k \in 1..(n - re.lo + 1) |->
              IF re.lazy THEN i + re.lo + (k - 1) ELSE i + n - (k - 1)]

\* re.r repeated lo..hi more times from i; an empty iteration ends the loop
RepEnds(re, lo, hi, s, i, ic) ==
  IF re.r.t \in {"set", "nset"} THEN ClsRepEnds(re, s, i, ic)
  ELSE IF hi = 0 THEN <<i>>
  ELSE LET more == RepFrom(re, lo, hi, s, i, ic)
       IN  IF lo > 0 THEN more
           ELSE IF re.lazy THEN <<i>> \o more ELSE more \o <<i>>

RepFrom(re, lo, hi, s, i, ic) ==
  LET step == SelectSeq(Ends(re.r, s, i, ic), LAMBDA e : e > i)
  IN  FlatMap(LAMBDA e : RepEnds(re, Max(lo - 1, 0), IF hi < 0 THEN hi ELSE hi - 1,
                                 s, e, ic),
              step)

MinOf(S) == CHOOSE p \in S : \A q \in S : p <= q

\* the first of the results that is a match, after position i
FirstMatch(i, rest) ==
  LET ok == {j \in DOMAIN rest : rest[j] # <<>>}
  IN  IF ok = {} THEN <<>> ELSE i \o rest[MinOf(ok)]

\* re.match: the parts of a pattern (its groups and the text between them) matched
\* one after the other from i; the bounds <<i, e1, ..., en>> of the first match in
\* backtracking order, or <<>>
RECURSIVE MatchParts(_, _, _, _, _)
RECURSIVE MatchRest(_, _, _, _, _)
MatchParts(parts, k, s, i, ic) ==
  IF k > Len(parts) THEN <<i>>
  ELSE FirstMatch(<<i>>, MatchRest(parts, k, s, Ends(parts[k], s, i, ic), ic))

MatchRest(parts, k, s, ends, ic) ==
  [j \in DOMAIN ends |-> MatchParts(parts, k + 1, s, ends[j], ic)]

\* re.search from position i on: the bounds of the leftmost match, or <<>>
SearchFrom(parts, s, i, ic) ==
  FirstMatch(<<>>, [p \in 1..(Len(s) + 2 - i) |-> MatchParts(parts, 1, s, i + p - 1, ic)])

SearchParts(parts, s, ic) == SearchFrom(parts, s, 1, ic)

Search(re, s, ic) == SearchParts(<<re>>, s, ic)

Matches(re, s, ic) == Search(re, s, ic) # <<>>

\* re.fullmatch
FullMatch(re, s, ic) ==
  MatchParts(<<re, Eol>>, 1, s, 1, ic) # <<>> /\ (s = <<>> \/ s[Len(s)] # "NL")

\* group k of a match m of SearchParts: the text of part k
Group(s, m, k) == Slice(s, m[k], m[k + 1])

Group0(s, m) == Slice(s, m[1], m[Len(m)])

\* the match of re that starts at each position 1..Len(s)+1: its bounds <<p, e>>, or <<>>
MatchAt(re, s, ic) ==
  SubSeq([p \in 1..(Len(s) + 1) |-> MatchParts(<<re>>, 1, s, p, ic)], 1, Len(s) + 1)

\* where the scan goes on after the leftmost match at or after position i
\* (Len(at) + 1: nowhere, there is no such match)
HopFrom(at, hits, i) ==
  IF \A p \in hits : p < i THEN Len(at) + 1
  ELSE LET m == at[MinOf({p \in hits : p >= i})]
       IN  IF m[2] > m[1] THEN m[2] ELSE m[2] + 1

Hops(at, hits) ==
  SubSeq([i \in 1..(Len(at) + 1) |-> HopFrom(at, hits, i)], 1, Len(at) + 1)

\* the positions the scan visits from the positions in from, hops being taken
\* 1, 2, 4, ... at a time
RECURSIVE Reach(_, _)
Reach(hops, from) ==
  LET to == from \cup {hops[x] : x \in from}
  IN  IF to = from THEN from
      ELSE Reach(SubSeq([i \in DOMAIN hops |-> hops[hops[i]]], 1, Len(hops)), to)

MatchesAt(at, hits) ==
  LET starts == {i \in Reach(Hops(at, hits), {1}) : \E p \in hits : p >= i}
      found  == {MinOf({p \in hits : p >= i}) : i \in starts}
  IN  MapSeq(LAMBDA p : at[p], SelectSeq([p \in DOMAIN at |-> p], LAMBDA p : p \in found))

\* the successive non-overlapping matches of re in s, leftmost first
MatchesIn(re, s, ic) ==
  CHOOSE ms \in {MatchesAt(at, {p \in DOMAIN at : at[p] # <<>>}) :
                   at \in {MatchAt(re, s, ic)}} : TRUE

\* re.findall (no groups): the successive non-overlapping matches
FindAll(re, s, ic) ==
  CHOOSE out \in {MapSeq(LAMBDA m : Slice(s, m[1], m[2]), ms) :
                    ms \in {MatchesIn(re, s, ic)}} : TRUE

\* the texts before, between and after the matches ms
SplitAt(s, ms) ==
  SubSeq([k \in 1..(Len(ms) + 1) |->
            Slice(s, IF k = 1 THEN 1 ELSE ms[k - 1][2],
                     IF k <= Len(ms) THEN ms[k][1] ELSE Len(s) + 1)],
         1, Len(ms) + 1)

\* re.split(re, s, maxsplit): the texts between the successive (non-empty) matches;
\* maxsplit = 0: no limit
Split(re, s, maxsplit, ic) ==
  CHOOSE out \in {SplitAt(s, IF maxsplit = 0 THEN ms ELSE FirstN(ms, maxsplit)) :
                    ms \in {MatchesIn(re, s, ic)}} : TRUE

\* re.sub(re, new, s) for a pattern that matches no empty string
Sub(re, new, s, ic) == Join(Split(re, s, 0, ic), new)

(***************************************************************************)
(* utils.py: norm                                                          *)
(***************************************************************************)
\* a Python value that is not a str (None, a number, ...)
NotAStr == <<"<not a str>">>

\* norm with the runs of blanks compressed before the invisible characters are removed
norm_CompressFirst(s) ==
  IF s = NotAStr THEN <<>>
  ELSE LET s1 == Sub(Plus(Cls({" ", "TAB"})), <<" ">>, s, FALSE)
           s2 == SelectSeq(s1, LAMBDA c : c \notin {"ZWSP", "BOM"})
           s3 == ReplaceAll(s2, <<"CR","NL">>, <<"NL">>)
           s4 == Join(MapSeq(Strip, SplitLines(s3)), <<"NL">>)
       IN  Strip(s4)

norm(s) ==
  IF s = NotAStr THEN <<>>
  ELSE LET s1 == SelectSeq(s, LAMBDA c : c \notin {"ZWSP", "BOM"})
           s2 == ReplaceAll(s1, <<"CR","NL">>, <<"NL">>)
           s3 == Sub(Plus(Cls({" ", "TAB"})), <<" ">>, s2, FALSE)
           s4 == Join(MapSeq(Strip, SplitLines(s3)), <<"NL">>)
       IN  Strip(s4)

(***************************************************************************)
(* parsers.py: section segmentation                                        *)
(***************************************************************************)
MaxHeadingLen == 60

\* [^\W\d_][\wÀ-ÿ'-]*
HeadingWordRx == Cat(<<Cls(Alpha), Star(Cls(WordCh \cup Latin1 \cup {"'", "-"}))>>)

\* \d{5,}
LongDigitsRx == Rep(ReD, 5, -1)

CapCount(words) == Cardinality({i \in DOMAIN words : words[i][1] \in Upper})

\* mutant of HeadingCase: half of the words capitalized is enough
HeadingCase_Half(s, words) ==
  words # <<>> /\ (IsUpperStr(s) \/ 10 * CapCount(words) >= 5 * Max(1, Len(words)))

HeadingCase(s, words) ==
  words # <<>> /\ (IsUpperStr(s) \/ 10 * CapCount(words) >= 7 * Max(1, Len(words)))

HeadingShape(s) ==
  /\ s # <<>>
  /\ Len(s) <= MaxHeadingLen
  /\ ~EndsWith(s, <<":">>)
  /\ ~(Contains(s, <<"@">>) \/ Contains(s, <<":","/","/">>) \/ Matches(LongDigitsRx, s, FALSE))
  /\ HeadingCase(s, FindAll(HeadingWordRx, s, FALSE))

_is_heading(line) == HeadingShape(norm(line))

\* a dict: its items in insertion order; d[k] = v keeps the place of a key it has
DictKeys(d) == [i \in DOMAIN d |-> d[i].k]

DictHas(d, k) == \E i \in DOMAIN d : d[i].k = k

DictSet(d, k, v) ==
  IF DictHas(d, k)
  THEN [i \in DOMAIN d |-> IF d[i].k = k THEN [k |-> k, v |-> v] ELSE d[i]]
  ELSE Append(d, [k |-> k, v |-> v])

DictGet(d, k) == d[CHOOSE i \in DOMAIN d : d[i].k = k].v

\* AcceptedIdxs without the isolation rule
AcceptedIdxs_NoIsolation(lines) ==
  LET F[i \in 0..Len(lines)] ==
        IF i = 0 THEN <<>>
        ELSE IF _is_heading(lines[i]) THEN Append(F[i - 1], i) ELSE F[i - 1]
  IN  F[Len(lines)]

\* the indices (from 1) of the lines accepted as headings, ascending
AcceptedIdxs(lines) ==
  LET prev_blank(i) == i = 1 \/ Strip(lines[i - 1]) = <<>>
      next_blank(i) == i + 1 <= Len(lines) /\ Strip(lines[i + 1]) = <<>>
      F[i \in 0..Len(lines)] ==
        IF i = 0 THEN <<>>
        ELSE IF _is_heading(lines[i]) /\ (prev_blank(i) \/ next_blank(i))
             THEN Append(F[i - 1], i) ELSE F[i - 1]
  IN  F[Len(lines)]

SectionChunk(lines, idxs, j) ==
  Strip(Join(Slice(lines, idxs[j] + 1,
                   IF j + 1 <= Len(idxs) THEN idxs[j + 1] ELSE Len(lines) + 1),
             <<"NL">>))

SectionPut(d, title, chunk) == IF chunk # <<>> THEN DictSet(d, title, chunk) ELSE d

SectionsOf(lines, idxs) ==
  LET F[j \in 0..Len(idxs)] ==
        IF j = 0 THEN <<>>
        ELSE SectionPut(F[j - 1], norm(lines[idxs[j]]), SectionChunk(lines, idxs, j))
  IN  F[Len(idxs)]

\* the sections as collected, with no 'body' entry in their place when there are none
OrBody_Keep(sections, txt) == sections

OrBody(sections, txt) ==
  IF sections # <<>> THEN sections ELSE <<[k |-> <<"b","o","d","y">>, v |-> txt]>>

SectionsOfLines(txt, lines) == OrBody(SectionsOf(lines, AcceptedIdxs(lines)), txt)

SectionsOfText(txt) == SectionsOfLines(txt, SplitLines(txt))

detect_sections(text) == SectionsOfText(norm(text))

(***************************************************************************)
(* Calls.  A call is in state "call" with its function and arguments, and  *)
(* in state "done" with its return value.                                  *)
(***************************************************************************)
NoValue == <<>>

SeqsUpTo(S, n) == UNION {[1..k -> S] : k \in 0..n}

TextOf(ls) == Join(ls, <<"NL">>)

Returns(f, v) ==
  /\ pc = "call"
  /\ callee = f
  /\ ret' = v
  /\ pc' = "done"
  /\ UNCHANGED <<callee, arg>>

Done(f) == pc = "done" /\ callee = f

(***************************************************************************)
(* detect_sections over every text of at most MaxLines lines               *)
(***************************************************************************)
MaxLines == 5

SectionLines == {<<>>, <<"A","B">>, <<"E","f">>, <<"c","d">>, <<" ","g",":">>}

InitSections ==
  /\ pc = "call"
  /\ callee = "detect_sections"
  /\ arg \in {[text |-> TextOf(ls)] : ls \in SeqsUpTo(SectionLines, MaxLines)}
  /\ ret = NoValue

CallDetectSections == Returns("detect_sections", detect_sections(arg.text))

NextSections == CallDetectSections

SpecSections == InitSections /\ [][NextSections]_vars

NormLines == SplitLines(norm(arg.text))

IsBlank(l) == Strip(l) = <<>>

RECURSIVE IsSubseq(_, _)
IsSubseq(a, b) ==
  IF a = <<>> THEN TRUE
  ELSE IF b = <<>> THEN FALSE
  ELSE IF Head(a) = Head(b) THEN IsSubseq(Tail(a), Tail(b))
  ELSE IsSubseq(a, Tail(b))

\* the non-blank lines of the normalized text that were not accepted as headings
NonHeadingLines ==
  LET acc == Range(AcceptedIdxs(NormLines))
      F[i \in 0..Len(NormLines)] ==
        IF i = 0 THEN <<>>
        ELSE IF i \notin acc /\ ~IsBlank(NormLines[i])
             THEN Append(F[i - 1], NormLines[i]) ELSE F[i - 1]
  IN  F[Len(NormLines)]

\* the lines of the bodies of a section map, in map order
BodyLines(d) == FlatMap(LAMBDA it : SplitLines(it.v), d)

\* C1: detect_sections returns a non-empty map whose bodies, concatenated in map
\* order, contain every non-blank line of the normalized text that was not
\* accepted as a heading
C1_TotalCoverage ==
  Done("detect_sections") =>
    /\ ret # <<>>
    /\ IsSubseq(NonHeadingLines, BodyLines(ret))

IsFallback(d) == d = <<[k |-> <<"b","o","d","y">>, v |-> norm(arg.text)]>>

IsolatedOrFirst(nl, i) ==
  \/ i = 1
  \/ IsBlank(nl[i - 1])
  \/ (i < Len(nl) /\ IsBlank(nl[i + 1]))

\* the amended statement over the lines nl of the normalized text, the flags hd of
\* the heading-shaped lines and the accepted indexes acc
IsolationOf(nl, hd, acc) ==
  /\ IsFallback(ret) \/
       \A j \in DOMAIN ret : \E i \in DOMAIN nl :
         /\ nl[i] = ret[j].k
         /\ hd[i]
         /\ IsolatedOrFirst(nl, i)
  /\ \A i \in DOMAIN nl :
       ( /\ hd[i]
         /\ IsolatedOrFirst(nl, i)
         /\ i < Len(nl)
         /\ ~IsBlank(nl[i + 1])
         /\ ~(hd[i + 1] /\ IsolatedOrFirst(nl, i + 1)) )
       => DictHas(ret, nl[i])
  /\ \A i \in DOMAIN nl :
       (hd[i] /\ ~IsolatedOrFirst(nl, i)) => i \notin Range(acc)

EmptyBody(nl, acc, j) ==
  \A i \in (acc[j] + 1)..((IF j < Len(acc) THEN acc[j + 1] ELSE Len(nl) + 1) - 1) :
    IsBlank(nl[i])

\* C17: detect_sections never returns an empty map; when no line is accepted as a
\* heading, or every accepted heading has an empty body, the result is exactly
\* the single entry 'body' mapped to the whole normalized text
C17_NeverEmpty ==
  Done("detect_sections") =>
    \A nl \in {NormLines} :
      \A acc \in {AcceptedIdxs(nl)} :
        /\ ret # <<>>
        /\ (\A j \in DOMAIN acc : EmptyBody(nl, acc, j)) => IsFallback(ret)

\* a heading is accepted, its body is empty, and the result is the 'body' entry
C17_Witness ==
  /\ Done("detect_sections")
  /\ AcceptedIdxs(NormLines) # <<>>
  /\ IsFallback(ret)

(***************************************************************************)
(* utils.py: is_noise; parsers.py: extract_privacy                         *)
(***************************************************************************)
\* (autorizz\w*).*?(trattament\w*).*?(dati|personali)
NoiseConsentRx ==
  Cat(<<Lit(<<"a","u","t","o","r","i","z","z">>), Star(ReW), LazyRep(AnyCh, 0, -1),
        Lit(<<"t","r","a","t","t","a","m","e","n","t">>), Star(ReW), LazyRep(AnyCh, 0, -1),
        Alt(<<Lit(<<"d","a","t","i">>), Lit(<<"p","e","r","s","o","n","a","l","i">>)>>)>>)

\* (autorizz\w*).*(trattament\w*).*(dati|personali)
PrivacyRx ==
  Cat(<<Lit(<<"a","u","t","o","r","i","z","z">>), Star(ReW), Star(AnyCh),
        Lit(<<"t","r","a","t","t","a","m","e","n","t">>), Star(ReW), Star(AnyCh),
        Alt(<<Lit(<<"d","a","t","i">>), Lit(<<"p","e","r","s","o","n","a","l","i">>)>>)>>)

NoiseLine(line, l) ==
  \/ line = <<>>
  \/ FullMatch(Plus(NotCls(Alpha \cup Digit)), l, FALSE)
  \/ Len(l) <= 1
  \/ Matches(NoiseConsentRx, l, TRUE)

is_noise(line) == NoiseLine(line, Strip(line))

NonNoise(lines) == SelectSeq(lines, LAMBDA l : ~is_noise(l))

FirstOr(hits, default) == IF hits = <<>> THEN default ELSE hits[1]

extract_privacy(text) ==
  RStripOf(Strip(FirstOr(SelectSeq(NonNoise(SplitLines(norm(text))),
                                   LAMBDA ln : Matches(PrivacyRx, ln, TRUE)),
                         <<>>)),
           {".", ",", ";", ":", " "})

(***************************************************************************)
(* extract_privacy over every text of at most MaxPrivacyLines lines        *)
(***************************************************************************)
MaxPrivacyLines == 3

PrivacyLines ==
  { <<>>, <<"M","a","r","i","o"," ","R","o","s","s","i">>, <<"A","u","t","o","r","i","z","z","o"," ","i","l"," ","t","r","a","t","t","a","m","e","n","t","o"," ","d","e","i"," ","d","a","t","i"," ","p","e","r","s","o","n","a","l","i",".">>,
    <<"A","U","T","O","R","I","Z","Z","A","Z","I","O","N","E"," ","T","R","A","T","T","A","M","E","N","T","O"," ","D","A","T","I",";">>, <<"t","r","a","t","t","a","m","e","n","t","o"," ","d","a","t","i",":"," ","a","u","t","o","r","i","z","z","o">> }

InitPrivacy ==
  /\ pc = "call"
  /\ callee = "extract_privacy"
  /\ arg \in {[text |-> TextOf(ls)] : ls \in SeqsUpTo(PrivacyLines, MaxPrivacyLines)}
  /\ ret = NoValue

CallExtractPrivacy == Returns("extract_privacy", extract_privacy(arg.text))

NextPrivacy == CallExtractPrivacy

SpecPrivacy == InitPrivacy /\ [][NextPrivacy]_vars

\* the lines of the normalized text that match the consent pattern
ConsentLines == SelectSeq(NormLines, LAMBDA ln : Matches(PrivacyRx, ln, TRUE))

\* C4: when a line matches the consent pattern, extract_privacy returns the first
\* such line without its trailing punctuation; it returns '' only when none does
C4_PrivacyClause ==
  Done("extract_privacy") =>
    IF ConsentLines = <<>> THEN ret = <<>>
    ELSE ret = RStripOf(ConsentLines[1], {".", ",", ";", ":", " "})

(***************************************************************************)
(* parsers.py: name inference from LinkedIn, e-mail and file name          *)
(***************************************************************************)
\* unidecode: the ASCII transliteration of a character
UnidecodeCh(c) ==
  CASE c = "Agrave" -> <<"A">>
    [] c = "agrave" -> <<"a">>
    [] c = "ENDASH" -> <<"-">>
    [] c = "EMDASH" -> <<"-","-">>
    [] c = "BULLET" -> <<"*">>
    [] c \in {"ZWSP", "BOM"} -> <<>>
    [] OTHER -> <<c>>

unidecode(s) == FlatMap(UnidecodeCh, s)

_FILENAME_STOP == {<<"c","v">>, <<"r","e","s","u","m","e">>, <<"c","u","r","r","i","c","u","l","u","m">>, <<"e","u","r","o","p","a","s","s">>, <<"f","i","n","a","l">>, <<"d","r","a","f","t">>, <<"c","o","p","y">>}

MaxNameTokens == 4

_canonize_token(t) == Lowered(Strip(unidecode(t)))

\* [.\-_\s]+
TokenSepRx == Plus(Cls({".", "-", "_"} \cup Space))

IsNameToken(p) == p # <<>> /\ IsAlphaStr(p) /\ Len(p) >= 2

_tokenize_basic(s) ==
  SelectSeq(Split(TokenSepRx, Sub(Plus(ReD), <<>>, unidecode(norm(s)), FALSE), 0, FALSE),
            IsNameToken)

_slug_tokens(s) == FirstN(_tokenize_basic(s), MaxNameTokens)

\* None
None == <<>>

AtLeast2(toks) == IF Len(toks) >= 2 THEN toks ELSE None

\* linkedin\.com/(?:in|pub)/([A-Za-z0-9\-_\.]+)
LinkedinSlugRx ==
  << Cat(<<Lit(<<"l","i","n","k","e","d","i","n",".","c","o","m","/">>), Alt(<<Lit(<<"i","n">>), Lit(<<"p","u","b">>)>>), Lit(<<"/">>)>>),
     Plus(Cls(AsciiUpper \cup AsciiLower \cup Digit \cup {"-", "_", "."})) >>

SlugOfMatch(url, m) == IF m = <<>> THEN None ELSE AtLeast2(_slug_tokens(Group(url, m, 2)))

_linkedin_tokens(url) ==
  IF url = <<>> THEN None ELSE SlugOfMatch(url, SearchParts(LinkedinSlugRx, url, TRUE))

\* email.split("@", 1)[0]
BeforeAt(email) == SubSeq(email, 1, Find(email, <<"@">>) - 1)

_email_tokens(email) ==
  IF email = <<>> \/ ~Contains(email, <<"@">>) THEN None
  ELSE AtLeast2(_slug_tokens(BeforeAt(email)))

\* \.pdf$    \(.*?\)    [_\-]+    \s+    (19|20)\d{2}    v\d+(\.\d+)?
PdfExtRx == Cat(<<Lit(<<".","p","d","f">>), Eol>>)

ParenRx == Cat(<<Lit(<<"(">>), LazyRep(AnyCh, 0, -1), Lit(<<")">>)>>)

UnderDashRx == Plus(Cls({"_", "-"}))

YearRx == Cat(<<Alt(<<Lit(<<"1","9">>), Lit(<<"2","0">>)>>), Rep(ReD, 2, 2)>>)

VersionRx == Cat(<<Lit(<<"v">>), Plus(ReD), Opt(Cat(<<Lit(<<".">>), Plus(ReD)>>))>>)

\* the filter without the filler words
FilenameKeep_NoStop(p) ==
  /\ p # <<>>
  /\ ~FullMatch(YearRx, Lowered(p), FALSE)
  /\ ~FullMatch(VersionRx, Lowered(p), TRUE)

FilenameKeep(p) ==
  /\ p # <<>>
  /\ Lowered(p) \notin _FILENAME_STOP
  /\ ~FullMatch(YearRx, Lowered(p), FALSE)
  /\ ~FullMatch(VersionRx, Lowered(p), TRUE)

FilenameStem(fn) ==
  Sub(UnderDashRx, <<" ">>, Sub(ParenRx, <<" ">>, Sub(PdfExtRx, <<>>, fn, TRUE), FALSE), FALSE)

_filename_tokens(fn) ==
  IF fn = <<>> THEN None
  ELSE AtLeast2(FirstN(SelectSeq(SelectSeq(Split(Plus(ReS), unidecode(norm(FilenameStem(fn))),
                                                 0, FALSE),
                                           FilenameKeep),
                                 LAMBDA t : IsAlphaStr(t) /\ Len(t) >= 2),
                       MaxNameTokens))

_looks_like_person(toks) ==
  2 <= Len(toks) /\ Len(toks) <= 4 /\ \A i \in DOMAIN toks : IsAlphaStr(toks[i])

CanonSet(toks) == {_canonize_token(toks[i]) : i \in DOMAIN toks}

SubsetEither(A, B) == A # {} /\ B # {} /\ (A \subseteq B \/ B \subseteq A)

_equivalent_tokens(a, b) == SubsetEither(CanonSet(a), CanonSet(b))

_titlecase_split(toks) ==
  <<Capitalize(toks[1]), Join(MapSeq(Capitalize, Tail(toks)), <<" ">>)>>

\* a candidate: its source and its tokens
Cand(src, toks) ==
  IF toks # None /\ _looks_like_person(toks) THEN <<[src |-> src, toks |-> toks]>> ELSE <<>>

Candidates(email, linkedin, filename) ==
  Cand("linkedin", _linkedin_tokens(linkedin))
  \o Cand("email", _email_tokens(email))
  \o Cand("filename", _filename_tokens(filename))

\* the candidate joins the first group whose first member it is equivalent to
PlaceIn(groups, cand, fits) ==
  IF fits = {} THEN Append(groups, <<cand>>)
  ELSE [g \in DOMAIN groups |->
          IF g = MinOf(fits) THEN Append(groups[g], cand) ELSE groups[g]]

\* mutant of PlaceCand: the candidate joins the first group that has a member it
\* is equivalent to
PlaceCand_AnyMember(groups, cand) ==
  PlaceIn(groups, cand,
          {g \in DOMAIN groups :
             \E k \in DOMAIN groups[g] : _equivalent_tokens(cand.toks, groups[g][k].toks)})

PlaceCand(groups, cand) ==
  PlaceIn(groups, cand,
          {g \in DOMAIN groups : _equivalent_tokens(cand.toks, groups[g][1].toks)})

BuildGroups(cands) ==
  LET F[i \in 0..Len(cands)] == IF i = 0 THEN <<>> ELSE PlaceCand(F[i - 1], cands[i])
  IN  F[Len(cands)]

Sources(g) == {g[i].src : i \in DOMAIN g}

B2I(b) == IF b THEN 1 ELSE 0

ScoreOf(sources) ==
  <<Cardinality(sources), B2I("linkedin" \in sources), B2I("email" \in sources)>>

group_score(g) == ScoreOf(Sources(g))

\* tuple comparison
TupleLess(a, b) ==
  \E i \in DOMAIN a : a[i] < b[i] /\ \A j \in 1..(i - 1) : a[j] = b[j]

\* max(items, key): the first item no other item beats
FirstMaxIdx(keys) ==
  MinOf({i \in DOMAIN keys : \A j \in DOMAIN keys : ~TupleLess(keys[i], keys[j])})

BestGroup(groups) == groups[FirstMaxIdx(MapSeq(group_score, groups))]

\* min(items, key=len): the first of the shortest
FirstMinLenIdx(lens) ==
  MinOf({i \in DOMAIN lens : \A j \in DOMAIN lens : lens[i] <= lens[j]})

\* min(..., key=len) with the order reversed: the longest
LongestToks(g) ==
  g[MinOf({i \in DOMAIN g : \A j \in DOMAIN g : Len(g[i].toks) >= Len(g[j].toks)})].toks

ShortestToks(g) == g[FirstMinLenIdx([i \in DOMAIN g |-> Len(g[i].toks)])].toks

NamePriority == <<"linkedin", "email", "filename">>

FirstOfSrc(cands, order) ==
  cands[MinOf({i \in DOMAIN cands :
                 \A j \in DOMAIN cands :
                   IndexOf(order, cands[i].src) <= IndexOf(order, cands[j].src)})].toks

\* the fallback with e-mail before LinkedIn
Fallback_EmailFirst(cands) == _titlecase_split(FirstOfSrc(cands, <<"email", "linkedin", "filename">>))

Fallback(cands) == _titlecase_split(FirstOfSrc(cands, NamePriority))

\* the consensus with the longest variant
Consensus_Longest(best) == _titlecase_split(LongestToks(best))

Consensus(best) == _titlecase_split(ShortestToks(best))

\* mutant of DecideName: consensus needs three sources
DecideName_AllAgree(cands, best) ==
  IF Cardinality(Sources(best)) >= 3 THEN Consensus(best) ELSE Fallback(cands)

DecideName(cands, best) ==
  IF Cardinality(Sources(best)) >= 2 THEN Consensus(best) ELSE Fallback(cands)

InferFrom(cands) ==
  IF cands = <<>> THEN <<<<>>, <<>>>>
  ELSE DecideName(cands, BestGroup(BuildGroups(cands)))

\* mutant of infer_name: the largest line of the layout comes first
infer_name_Layout(blocks, email, linkedin, filename, section_titles) ==
  IF blocks.items # <<>>
  THEN _titlecase_split(_tokenize_basic(blocks.items[1].text))
  ELSE InferFrom(Candidates(email, linkedin, filename))

infer_name(blocks, email, linkedin, filename, section_titles) ==
  InferFrom(Candidates(email, linkedin, filename))

(***************************************************************************)
(* infer_name over e-mails, LinkedIn URLs and file names                   *)
(***************************************************************************)
NameEmails ==
  { <<>>, <<"a","n","n","a",".","r","o","s","s","i","@","e","x","a","m","p","l","e",".","c","o","m">>, <<"a","n","n","a",".","m","a","r","i","a",".","r","o","s","s","i","@","x",".","i","t">>, <<"a",".","r","o","s","s","i","@","x",".","i","t">>,
    <<"m","a","r","i","o","_","b","i","a","n","c","h","i","@","g","m","a","i","l",".","c","o","m">>, <<"i","n","f","o","@","a","c","m","e",".","c","o","m">> }

NameLinkedins ==
  { <<>>, <<"h","t","t","p","s",":","/","/","l","i","n","k","e","d","i","n",".","c","o","m","/","i","n","/","a","n","n","a","-","r","o","s","s","i","-","1","2","3">>, <<"h","t","t","p","s",":","/","/","w","w","w",".","l","i","n","k","e","d","i","n",".","c","o","m","/","i","n","/","m","a","r","i","o","-","b","i","a","n","c","h","i">>,
    <<"h","t","t","p","s",":","/","/","l","i","n","k","e","d","i","n",".","c","o","m","/","p","u","b","/","R","o","s","s","i",".","A","n","n","a",".","M","a","r","i","a">>, <<"h","t","t","p","s",":","/","/","l","i","n","k","e","d","i","n",".","c","o","m","/","c","o","m","p","a","n","y","/","a","c","m","e">> }

NameFilenames ==
  { <<>>, <<"C","V","_","M","a","r","i","o","_","B","i","a","n","c","h","i","_","2","0","2","3",".","p","d","f">>, <<"A","n","n","a"," ","R","o","s","s","i"," ","(","d","r","a","f","t",")"," ","v","2",".","P","D","F">>, <<"c","v",".","p","d","f">>,
    <<"R","O","S","S","I","-","a","n","n","a","-","m","a","r","i","a",".","p","d","f">> }

InitName ==
  /\ pc = "call"
  /\ callee = "infer_name"
  /\ arg \in [blocks : {"None"}, email : NameEmails, linkedin : NameLinkedins,
              filename : NameFilenames, section_titles : {"None"}]
  /\ ret = NoValue

CallInferName ==
  Returns("infer_name",
          infer_name(arg.blocks, arg.email, arg.linkedin, arg.filename, arg.section_titles))

NextName == CallInferName

SpecName == InitName /\ [][NextName]_vars

ArgCands == Candidates(arg.email, arg.linkedin, arg.filename)

\* the groups no other group outscores
TopGroups(groups) ==
  {g \in DOMAIN groups :
     \A h \in DOMAIN groups : ~TupleLess(group_score(groups[g]), group_score(groups[h]))}

\* <<given name, surname>> of a token list: capitalized, surname joined by spaces
NameOf(toks) ==
  <<Capitalize(toks[1]),
    Join([i \in 1..(Len(toks) - 1) |-> Capitalize(toks[i + 1])], <<" ">>)>>

HasConsensus(groups) == \E g \in DOMAIN groups : Cardinality(Sources(groups[g])) >= 2

\* C9: when the top-scoring group has at least 2 distinct sources, infer_name
\* returns the capitalized tokens of a minimum-length token list of that group
C9_Consensus ==
  Done("infer_name") =>
    \A g \in TopGroups(BuildGroups(ArgCands)) :
      LET grp == BuildGroups(ArgCands)[g]
      IN  Cardinality(Sources(grp)) >= 2 =>
            \E i \in DOMAIN grp :
              /\ \A j \in DOMAIN grp : Len(grp[i].toks) <= Len(grp[j].toks)
              /\ ret = NameOf(grp[i].toks)

\* two sources agree and a third has a longer variant; and the example of the claim
C9_Witness ==
  /\ Done("infer_name")
  /\ arg.email = <<"a","n","n","a",".","r","o","s","s","i","@","e","x","a","m","p","l","e",".","c","o","m">>
  /\ arg.linkedin = <<"h","t","t","p","s",":","/","/","l","i","n","k","e","d","i","n",".","c","o","m","/","i","n","/","a","n","n","a","-","r","o","s","s","i","-","1","2","3">>
  /\ arg.filename = <<"R","O","S","S","I","-","a","n","n","a","-","m","a","r","i","a",".","p","d","f">>
  /\ HasConsensus(BuildGroups(ArgCands))
  /\ ret = <<<<"A","n","n","a">>, <<"R","o","s","s","i">>>>

\* C10: when no group has 2 distinct sources, infer_name returns the candidate of
\* the first source present in the order linkedin, email, filename; with no
\* candidate at all it returns ('', '')
C10_Fallback ==
  Done("infer_name") =>
    /\ ArgCands = <<>> => ret = <<<<>>, <<>>>>
    /\ (ArgCands # <<>> /\ ~HasConsensus(BuildGroups(ArgCands))) =>
         \E i \in DOMAIN ArgCands :
           /\ ret = NameOf(ArgCands[i].toks)
           /\ ArgCands[i].src = "email" =>
                \A j \in DOMAIN ArgCands : ArgCands[j].src # "linkedin"
           /\ ArgCands[i].src = "filename" =>
                \A j \in DOMAIN ArgCands : ArgCands[j].src = "filename"

\* LinkedIn and e-mail name different people: LinkedIn wins
C10_Witness ==
  /\ Done("infer_name")
  /\ arg.email = <<"a","n","n","a",".","r","o","s","s","i","@","e","x","a","m","p","l","e",".","c","o","m">>
  /\ arg.linkedin = <<"h","t","t","p","s",":","/","/","w","w","w",".","l","i","n","k","e","d","i","n",".","c","o","m","/","i","n","/","m","a","r","i","o","-","b","i","a","n","c","h","i">>
  /\ ~HasConsensus(BuildGroups(ArgCands))
  /\ ret = <<<<"M","a","r","i","o">>, <<"B","i","a","n","c","h","i">>>>

(***************************************************************************)
(* utils.py: dates.  The dateparser library is a black box: the stub       *)
(* recognises the forms that parse_date_any documents (month name and      *)
(* year, month/year, year, ISO date) and nothing else.                     *)
(***************************************************************************)
\* a sample of the month names of the date library's locale tables
MonthNames ==
  << [n |-> <<"g","e","n","n","a","i","o">>, m |-> 1], [n |-> <<"g","e","n">>, m |-> 1], [n |-> <<"m","a","g">>, m |-> 5],
     [n |-> <<"j","u","l">>, m |-> 7], [n |-> <<"o","t","t","o","b","r","e">>, m |-> 10] >>

MonthOf(w) ==
  LET hit == {i \in DOMAIN MonthNames : MonthNames[i].n = Lowered(w)}
  IN  IF hit = {} THEN 0 ELSE MonthNames[CHOOSE i \in hit : TRUE].m

Year4Rx == Rep(ReD, 4, 4)

IsoDateRx == Cat(<<Rep(ReD, 4, 4), Lit(<<"-">>), Rep(ReD, 2, 2), Lit(<<"-">>), Rep(ReD, 2, 2)>>)

\* None, as a datetime
NoDate == [year |-> 0, month |-> 0, day |-> 0]

DateOf(y, m, d) ==
  IF m \in 1..12 /\ d \in 1..31 THEN [year |-> y, month |-> m, day |-> d] ELSE NoDate

\* 'ottobre 2019', 'Jul 2021': PREFER_DAY_OF_MONTH = first
MonthYear(words) ==
  IF Len(words) = 2 /\ FullMatch(Year4Rx, words[2], FALSE)
  THEN DateOf(IntOf(words[2]), MonthOf(words[1]), 1)
  ELSE NoDate

\* '03/2020'
SlashMonthYear(s, m) ==
  IF m = <<>> THEN NoDate ELSE DateOf(IntOf(Group(s, m, 3)), IntOf(Group(s, m, 1)), 1)

FirstDate(ds) == FirstOr(SelectSeq(ds, LAMBDA d : d # NoDate), NoDate)

\* dateparser.parse(s, settings=_DATEPARSER_SETTINGS): a datetime or None
dateparser_parse(s) ==
  FirstDate(<<
    IF FullMatch(IsoDateRx, s, FALSE)
    THEN DateOf(IntOf(SubSeq(s, 1, 4)), IntOf(SubSeq(s, 6, 7)), IntOf(SubSeq(s, 9, 10)))
    ELSE NoDate,
    MonthYear(SplitWS(s)),
    SlashMonthYear(s, MatchParts(<<Rep(ReD, 1, 2), Lit(<<"/">>), Year4Rx, Eol>>, 1, s, 1, FALSE)),
    IF FullMatch(Year4Rx, s, FALSE) THEN DateOf(IntOf(s), 1, 1) ELSE NoDate >>)

_dt_to_iso(d) == Fmt(d.year, 4) \o <<"-">> \o Fmt(d.month, 2) \o <<"-">> \o Fmt(d.day, 2)

\* (?:19|20)\d{2}
DateYearRx == Cat(<<Alt(<<Lit(<<"1","9">>), Lit(<<"2","0">>)>>), Rep(ReD, 2, 2)>>)

DateSepRx == Cls({"/", "-", "."})

\* uninterpretable: the cleaned text
DateUnparsed_Empty(s) == <<>>

DateUnparsed(s) == s

YearOr(s, m) ==
  IF m # <<>> THEN Fmt(IntOf(Group(s, m, 2)), 4) \o <<"-","0","1","-","0","1">> ELSE DateUnparsed(s)

YearMonthOr(s, m) ==
  IF m # <<>>
  THEN Fmt(IntOf(Group(s, m, 2)), 4) \o <<"-">> \o Fmt(IntOf(Group(s, m, 4)), 2) \o <<"-","0","1">>
  ELSE YearOr(s, SearchParts(<<WordB, DateYearRx, WordB>>, s, FALSE))

YearMonthDayOr(s, m) ==
  IF m # <<>>
  THEN Fmt(IntOf(Group(s, m, 2)), 4) \o <<"-">> \o Fmt(IntOf(Group(s, m, 4)), 2)
       \o <<"-">> \o Fmt(IntOf(Group(s, m, 6)), 2)
  ELSE YearMonthOr(s, SearchParts(<<WordB, DateYearRx, DateSepRx,
                                    Cat(<<Opt(Cls({"0", "1"})), ReD>>), WordB>>, s, FALSE))

DateFallback(s) ==
  YearMonthDayOr(s, SearchParts(<<WordB, DateYearRx, DateSepRx,
                                  Cat(<<Opt(Cls({"0", "1"})), ReD>>), DateSepRx,
                                  Cat(<<Opt(Cls({"0", "1", "2", "3"})), ReD>>), WordB>>,
                                s, FALSE))

DateOrFallback(s, d) == IF d # NoDate THEN _dt_to_iso(d) ELSE DateFallback(s)

DateOfNorm(s) == IF s = <<>> THEN <<>> ELSE DateOrFallback(s, dateparser_parse(s))

parse_date_any(s) == DateOfNorm(norm(s))

\* \s*(?:-|to|a|al|fino a|hasta|bis|à)\s*
RangeSepRx ==
  Cat(<<Star(ReS),
        Alt(<<Lit(<<"-">>), Lit(<<"t","o">>), Lit(<<"a">>), Lit(<<"a","l">>), Lit(<<"f","i","n","o"," ","a">>), Lit(<<"h","a","s","t","a">>),
              Lit(<<"b","i","s">>), Lit(<<"agrave">>)>>),
        Star(ReS)>>)

\* \b(presente|current|oggi|now|attuale)\b
PresentRx ==
  Cat(<<WordB,
        Alt(<<Lit(<<"p","r","e","s","e","n","t","e">>), Lit(<<"c","u","r","r","e","n","t">>), Lit(<<"o","g","g","i">>), Lit(<<"n","o","w">>), Lit(<<"a","t","t","u","a","l","e">>)>>),
        WordB>>)

RangeOfParts(s, parts) ==
  IF Len(parts) = 2
  THEN IF Matches(PresentRx, parts[2], TRUE)
       THEN <<parse_date_any(parts[1]), <<>>>>
       ELSE <<parse_date_any(parts[1]), parse_date_any(parts[2])>>
  ELSE <<parse_date_any(s), <<>>>>

RangeOfClean(s) == RangeOfParts(s, Split(RangeSepRx, s, 1, TRUE))

parse_range(s) ==
  RangeOfClean(ReplaceAll(ReplaceAll(norm(s), <<"EMDASH">>, <<"-">>), <<"ENDASH">>, <<"-">>))

(***************************************************************************)
(* parsers.py: experience and education entries                            *)
(***************************************************************************)
MaxParagraphs == 60

\* \n\s*\n
ParagraphSepRx == Cat(<<Lit(<<"NL">>), Star(ReS), Lit(<<"NL">>)>>)

_paragraphs(section_text) ==
  FirstN(SelectSeq(MapSeq(Strip, Split(ParagraphSepRx, section_text, 0, FALSE)),
                   LAMBDA p : p # <<>>),
         MaxParagraphs)

\* ^([A-Z][a-zÀ-ÿ]+(?: [A-Z][a-zÀ-ÿ]+){0,2})$
CityWordRx == Cat(<<Cls(AsciiUpper), Plus(Cls(AsciiLower \cup Latin1))>>)

CityRx == Cat(<<CityWordRx, Rep(Cat(<<Lit(<<" ">>), CityWordRx>>), 0, 2), Eol>>)

CityOfStripped(s) ==
  IF Contains(s, <<"@">>) \/ Contains(s, <<":","/","/">>) \/ Matches(Rep(ReD, 2, -1), s, FALSE)
  THEN None
  ELSE IF MatchParts(<<CityRx>>, 1, s, 1, FALSE) = <<>> THEN None
  ELSE IF 2 <= Len(s) /\ Len(s) <= 48 THEN s ELSE None

_looks_like_city(line) == CityOfStripped(Strip(line))

_first_city(lines) ==
  FirstOr(SelectSeq(MapSeq(_looks_like_city, FirstN(lines, 3)), LAMBDA c : c # None), <<>>)

\* \d{1,2}[/\-.]\d{1,2}[/\-.]\d{2,4} | \d{1,2}[/\-.]\d{4} | \b[A-Za-zÀ-ÿ]{3,9}\s+\d{4}\b
\* | \b(?:19|20)\d{2}\b
DateExprs ==
  << Cat(<<Rep(ReD, 1, 2), DateSepRx, Rep(ReD, 1, 2), DateSepRx, Rep(ReD, 2, 4)>>),
     Cat(<<Rep(ReD, 1, 2), DateSepRx, Rep(ReD, 4, 4)>>),
     Cat(<<WordB, Rep(Cls(Alpha), 3, 9), Plus(ReS), Rep(ReD, 4, 4), WordB>>),
     Cat(<<WordB, DateYearRx, WordB>>) >>

\* (.{0,30})(date).{0,15}(?:-|–|—|to|a|al|fino a|hasta|bis|à).{0,15}
\* (\bpresente|current|oggi|now|attuale\b|date)
RangeRx ==
  Cat(<<Rep(AnyCh, 0, 30), Alt(DateExprs), Rep(AnyCh, 0, 15),
        Alt(<<Lit(<<"-">>), Lit(<<"ENDASH">>), Lit(<<"EMDASH">>), Lit(<<"t","o">>), Lit(<<"a">>), Lit(<<"a","l">>),
              Lit(<<"f","i","n","o"," ","a">>), Lit(<<"h","a","s","t","a">>), Lit(<<"b","i","s">>), Lit(<<"agrave">>)>>),
        Rep(AnyCh, 0, 15),
        Alt(<<Cat(<<WordB, Lit(<<"p","r","e","s","e","n","t","e">>)>>), Lit(<<"c","u","r","r","e","n","t">>), Lit(<<"o","g","g","i">>), Lit(<<"n","o","w">>),
              Cat(<<Lit(<<"a","t","t","u","a","l","e">>), WordB>>)>> \o DateExprs)>>)

MatchText(l, m) == IF m = <<>> THEN <<>> ELSE Group0(l, m)

RangeText(l) == MatchText(l, Search(RangeRx, l, TRUE))

IsIso(d) == MatchParts(<<IsoDateRx, Eol>>, 1, d, 1, FALSE) # <<>>

FirstSingleDate(ds) == IF ds = <<>> THEN <<<<>>, <<>>>> ELSE <<ds[1], <<>>>>

RangeOrSingle(lines, hits) ==
  IF hits # <<>> THEN parse_range(hits[1])
  ELSE FirstSingleDate(SelectSeq(MapSeq(parse_date_any, lines), IsIso))

FirstRangeOf(lines) ==
  RangeOrSingle(lines, SelectSeq(MapSeq(RangeText, lines), LAMBDA g : g # <<>>))

_first_range(lines) == FirstRangeOf(FirstN(lines, 3))

EntryStrip(s) == StripOf(s, {" ", "-", ":", "|"})

\* \s[–—-]\s
DashRx == Cat(<<ReS, Cls({"ENDASH", "EMDASH", "-"}), ReS>>)

HasDash(header) ==
  Contains(header, <<" ","-"," ">>) \/ Contains(header, <<" ","ENDASH"," ">>) \/ Contains(header, <<" ","EMDASH"," ">>)

AtSplit(header, i) ==
  <<EntryStrip(SubSeq(header, 1, i - 1)), EntryStrip(SubSeq(header, i + 1, Len(header)))>>

DashSplit(header, parts) ==
  IF Len(parts) = 2 THEN <<EntryStrip(parts[1]), EntryStrip(parts[2])>>
  ELSE <<EntryStrip(header), <<>>>>

\* <<posizione, azienda>> / <<titolo_studio, istituto>> of a header line
HeaderSplit(header) ==
  IF Contains(header, <<"@">>) THEN AtSplit(header, Find(header, <<"@">>))
  ELSE IF HasDash(header) THEN DashSplit(header, Split(DashRx, header, 1, FALSE))
  ELSE <<EntryStrip(header), <<>>>>

Description(lines) == IF Len(lines) > 1 THEN Join(Tail(lines), <<"NL">>) ELSE <<>>

ExperienceEntry(head, range, citta, descrizione) ==
  [posizione |-> head[1], azienda |-> head[2], citta |-> citta, paese |-> <<>>,
   data_inizio |-> range[1], data_fine |-> range[2], descrizione |-> descrizione,
   responsabilita |-> <<>>, risultati_ottenuti |-> <<>>]

EmptyExperience == ExperienceEntry(<<<<>>, <<>>>>, <<<<>>, <<>>>>, <<>>, <<>>)

ExperienceOf(lines) ==
  ExperienceEntry(HeaderSplit(lines[1]), _first_range(lines), _first_city(lines),
                  Description(lines))

ParagraphLines(paras) ==
  SelectSeq(MapSeq(LAMBDA para : NonNoise(SplitLines(para)), paras), LAMBDA ls : ls # <<>>)

\* the entries as collected, with no placeholder in their place when there are none
OrList_Keep(out, default) == out

OrList(out, default) == IF out = <<>> THEN <<default>> ELSE out

extract_experience(section_text) ==
  IF section_text = <<>> THEN <<EmptyExperience>>
  ELSE OrList(MapSeq(ExperienceOf, ParagraphLines(_paragraphs(section_text))),
              EmptyExperience)

EducationEntry(head, range, citta, descrizione) ==
  [titolo_studio |-> head[1], istituto |-> head[2], citta |-> citta, paese |-> <<>>,
   data_inizio |-> range[1], data_fine |-> range[2], voto |-> <<>>,
   descrizione |-> descrizione, tesi |-> <<>>]

EmptyEducation == EducationEntry(<<<<>>, <<>>>>, <<<<>>, <<>>>>, <<>>, <<>>)

EducationOf(lines) ==
  EducationEntry(HeaderSplit(lines[1]), _first_range(lines), _first_city(lines),
                 Description(lines))

extract_education(section_text) ==
  IF section_text = <<>> THEN <<EmptyEducation>>
  ELSE OrList(MapSeq(EducationOf, ParagraphLines(_paragraphs(section_text))),
              EmptyEducation)

(***************************************************************************)
(* extract_experience and extract_education over every section text of at  *)
(* most MaxEntryLines lines                                                *)
(***************************************************************************)
MaxEntryLines == 3

EntryLines ==
  { <<>>, <<"D","e","v","e","l","o","p","e","r"," ","@"," ","A","c","m","e">>, <<"G","e","n","n","a","i","o"," ","2","0","2","0"," ","-"," ","p","r","e","s","e","n","t","e">>, <<"M","i","l","a","n","o">>,
    <<"D","e","v","e","l","o","p","e","r"," ","-"," ","2","0","1","9"," ","-"," ","2","0","2","1">>, <<"0","3","/","2","0","2","0">> }

InitEntries ==
  /\ pc = "call"
  /\ callee \in {"extract_experience", "extract_education"}
  /\ arg \in {[section_text |-> TextOf(ls)] : ls \in SeqsUpTo(EntryLines, MaxEntryLines)}
  /\ ret = NoValue

CallExtractExperience ==
  Returns("extract_experience", extract_experience(arg.section_text))

CallExtractEducation ==
  Returns("extract_education", extract_education(arg.section_text))

NextEntries == CallExtractExperience \/ CallExtractEducation

SpecEntries == InitEntries /\ [][NextEntries]_vars

IsoOrEmpty(d) == d = <<>> \/ IsIso(d)

\* C6: in every entry of extract_experience and extract_education, data_inizio and
\* data_fine are each '' or a string of the form YYYY-MM-DD
C6_IsoDates ==
  (Done("extract_experience") \/ Done("extract_education")) =>
    \A i \in DOMAIN ret : IsoOrEmpty(ret[i].data_inizio) /\ IsoOrEmpty(ret[i].data_fine)

(***************************************************************************)
(* parse_range over the inputs '<start> <sep> <end>'                       *)
(***************************************************************************)
RangeStarts == {<<"G","e","n","n","a","i","o"," ","2","0","2","0">>, <<"G","e","n"," ","2","0","2","0">>, <<"2","0","1","9">>, <<"0","3","/","2","0","2","0">>, <<"2","0","2","0","-","0","5","-","1","2">>}

RangeSeps == {<<"-">>, <<"t","o">>, <<"a">>, <<"a","l">>, <<"f","i","n","o"," ","a">>, <<"h","a","s","t","a">>, <<"b","i","s">>, <<"agrave">>}

RangeEnds == {<<"p","r","e","s","e","n","t","e">>, <<"2","0","2","1">>, <<"M","a","g"," ","2","0","2","2">>, <<"n","o","w">>}

InitRange ==
  /\ pc = "call"
  /\ callee = "parse_range"
  /\ arg \in {[s |-> st \o <<" ">> \o sep \o <<" ">> \o en, start |-> st, end |-> en] :
                st \in RangeStarts, sep \in RangeSeps, en \in RangeEnds}
  /\ ret = NoValue

CallParseRange == Returns("parse_range", parse_range(arg.s))

NextRange == CallParseRange

SpecRange == InitRange /\ [][NextRange]_vars

\* C8: for an input '<start> <sep> <end>' parse_range returns
\* (parse_date_any(start), parse_date_any(end)), and (parse_date_any(start), '')
\* when <end> contains a present token
C8_SplitAtSeparator ==
  Done("parse_range") =>
    ret = <<parse_date_any(arg.start),
            IF Matches(PresentRx, arg.end, TRUE) THEN <<>> ELSE parse_date_any(arg.end)>>

(***************************************************************************)
(* utils.py: phones, countries and TLDs.  The phonenumbers, pycountry and  *)
(* tldextract libraries are black boxes: the stubs hold a sample of their  *)
(* tables.  A call that can raise returns Ok(value) or Exc.                *)
(***************************************************************************)
Ok(v) == [exc |-> FALSE, val |-> v]

Exc == [exc |-> TRUE, val |-> <<>>]

\* try: ... except Exception: pass
Caught(outcome, default) == IF outcome.exc THEN default ELSE outcome.val

Uppered(s) == [i \in DOMAIN s |-> ToUpper(s[i])]

\* x or ""
OrEmpty(s) == IF s = NotAStr THEN <<>> ELSE s

\* the items without those seen before, compared as written
dedupe_keep_order_ExactCase(items) ==
  LET first == {i \in DOMAIN items : \A j \in 1..(i - 1) : items[j] # items[i]}
  IN  MapSeq(LAMBDA i : items[i], SortedSeq(first))

dedupe_keep_order(items) ==
  LET first == {i \in DOMAIN items :
                  \A j \in 1..(i - 1) : Lowered(items[j]) # Lowered(items[i])}
  IN  MapSeq(LAMBDA i : items[i], SortedSeq(first))

\* pycountry.countries
Countries ==
  << [alpha_2 |-> <<"I","T">>, alpha_3 |-> <<"I","T","A">>, name |-> <<"I","t","a","l","y">>,
      official_name |-> <<"I","t","a","l","i","a","n"," ","R","e","p","u","b","l","i","c">>],
     [alpha_2 |-> <<"D","E">>, alpha_3 |-> <<"D","E","U">>, name |-> <<"G","e","r","m","a","n","y">>,
      official_name |-> <<"F","e","d","e","r","a","l"," ","R","e","p","u","b","l","i","c"," ","o","f"," ","G","e","r","m","a","n","y">>],
     [alpha_2 |-> <<"G","B">>, alpha_3 |-> <<"G","B","R">>, name |-> <<"U","n","i","t","e","d"," ","K","i","n","g","d","o","m">>,
      official_name |-> <<"U","n","i","t","e","d"," ","K","i","n","g","d","o","m"," ","o","f"," ","G","r","e","a","t"," ","B","r","i","t","a","i","n"," ","a","n","d"," ","N","o","r","t","h","e","r","n"," ","I","r","e","l","a","n","d">>],
     [alpha_2 |-> <<"G","R">>, alpha_3 |-> <<"G","R","C">>, name |-> <<"G","r","e","e","c","e">>,
      official_name |-> <<"H","e","l","l","e","n","i","c"," ","R","e","p","u","b","l","i","c">>] >>

\* None, as a country
NoCountry == [alpha_2 |-> <<>>, alpha_3 |-> <<>>, name |-> <<>>, official_name |-> <<>>]

CountryAt(hit) == IF hit = {} THEN NoCountry ELSE Countries[MinOf(hit)]

\* pycountry.countries.get(field=value): the country or None
countries_get(field, value) ==
  CountryAt({i \in DOMAIN Countries : Lowered(Countries[i][field]) = Lowered(value)})

LookupAt(hit) == IF hit = {} THEN Exc ELSE Ok(Countries[MinOf(hit)])

\* pycountry.countries.lookup(value): the country, or LookupError
countries_lookup(value) ==
  LookupAt({i \in DOMAIN Countries :
              \E f \in {"alpha_2", "alpha_3", "name", "official_name"} :
                 Lowered(Countries[i][f]) = Lowered(value)})

\* the name of the first country found, or default
FirstName(cs, default) ==
  FirstOr(SelectSeq(MapSeq(LAMBDA c : c.name, cs), LAMBDA n : n # <<>>), default)

\* phonenumbers: country calling codes, their region and national number lengths
CallingCodes ==
  << [cc |-> <<"3","9">>, region |-> <<"I","T">>, lens |-> 9..10],
     [cc |-> <<"4","9">>, region |-> <<"D","E">>, lens |-> 10..11],
     [cc |-> <<"4","4">>, region |-> <<"G","B">>, lens |-> 10..10] >>

\* a number written with its international prefix
PhoneRx == Cat(<<Lit(<<"+">>), ReD, Rep(Cat(<<Opt(Cls({" ", "-"})), ReD>>), 5, 14)>>)

OnlyDigits(s) == SelectSeq(s, LAMBDA c : c \in Digit)

NumberAt(digits, hit) ==
  IF hit = {} THEN Exc
  ELSE Ok([code |-> MinOf(hit),
           national |-> SubSeq(digits, Len(CallingCodes[MinOf(hit)].cc) + 1, Len(digits))])

\* phonenumbers.parse(s, None): the number, or NumberParseException
phonenumbers_parse(s) ==
  IF ~StartsWith(s, <<"+">>) THEN Exc
  ELSE NumberAt(OnlyDigits(s),
                {i \in DOMAIN CallingCodes : StartsWith(OnlyDigits(s), CallingCodes[i].cc)})

is_valid_number(num) == Len(num.national) \in CallingCodes[num.code].lens

region_code_for_number(num) == CallingCodes[num.code].region

ValidE164(o) == IF o.exc THEN <<>> ELSE IF is_valid_number(o.val) THEN <<o.val>> ELSE <<>>

format_e164(num) == <<"+">> \o CallingCodes[num.code].cc \o num.national

\* phonenumbers.PhoneNumberMatcher(text, None), the valid numbers in E.164
phone_candidates(text) ==
  dedupe_keep_order(
    MapSeq(format_e164,
           FlatMap(LAMBDA t : ValidE164(phonenumbers_parse(t)),
                   FindAll(PhoneRx, OrEmpty(text), FALSE))))

RegionCountry(o) ==
  IF o.exc THEN <<>> ELSE countries_get("alpha_2", region_code_for_number(o.val)).name

country_from_phone(e164) == RegionCountry(phonenumbers_parse(OrEmpty(e164)))

\* tldextract: public suffixes, the longer first
PublicSuffixes == <<<<"c","o",".","u","k">>, <<"c","o","m">>, <<"i","t">>, <<"d","e">>, <<"u","k">>, <<"g","r">>>>

AfterFirst(s, sep) ==
  IF Contains(s, sep) THEN SubSeq(s, Find(s, sep) + Len(sep), Len(s)) ELSE s

BeforeFirst(s, sep) == IF Contains(s, sep) THEN SubSeq(s, 1, Find(s, sep) - 1) ELSE s

AfterLast(s, c) ==
  LET at == {i \in DOMAIN s : s[i] = c}
  IN  IF at = {} THEN s ELSE SubSeq(s, 1 + (CHOOSE i \in at : \A j \in at : i >= j), Len(s))

HostOf(s) == Lowered(AfterFirst(BeforeFirst(AfterFirst(s, <<":","/","/">>), <<"/">>), <<"@">>))

SuffixOfHost(host) ==
  FirstOr(SelectSeq(PublicSuffixes,
                    LAMBDA x : host = x \/ EndsWith(host, <<".">> \o x)), <<>>)

\* tldextract.extract(s).suffix
tld_suffix(s) == SuffixOfHost(HostOf(s))

CountryOfLabel(cc) ==
  IF Len(cc) = 2 THEN countries_get("alpha_2", Uppered(cc)).name ELSE <<>>

country_from_tld(url_or_email) ==
  CountryOfLabel(AfterLast(tld_suffix(OrEmpty(url_or_email)), "."))

\* [^\w ]+
PunctRx == Plus(NotCls(WordCh \cup {" "}))

NormalizeClean(s) ==
  IF s = <<>> THEN <<>>
  ELSE FirstName(<<countries_get("alpha_2", Uppered(s)),
                   countries_get("alpha_3", Uppered(s)),
                   Caught(countries_lookup(Strip(Sub(PunctRx, <<" ">>, s, FALSE))), NoCountry)>>,
                 s)

normalize_country(name_or_code) == NormalizeClean(norm(name_or_code))

\* \b([A-Z]{2,3})\b
IsoCodeRx == Cat(<<WordB, Rep(Cls(AsciiUpper), 2, 3), WordB>>)

CodeCountry(iso) ==
  IF Len(iso) = 2 THEN countries_get("alpha_2", iso) ELSE countries_get("alpha_3", iso)

Bigrams(words) == [i \in 1..(Len(words) - 1) |-> words[i] \o <<" ">> \o words[i + 1]]

LookupOrNone(cand) == Caught(countries_lookup(cand), NoCountry)

TextCountryOf(s, words) ==
  FirstName(MapSeq(CodeCountry, FindAll(IsoCodeRx, s, FALSE))
            \o MapSeq(LookupOrNone, Bigrams(words))
            \o MapSeq(LookupOrNone, words),
            <<>>)

TextCountry(s) ==
  IF s = <<>> THEN <<>>
  ELSE CHOOSE c \in {TextCountryOf(s, words) : words \in {FindAll(Plus(Cls(Alpha)), s, FALSE)}} :
         TRUE

country_from_text(text) == CHOOSE c \in {TextCountry(s) : s \in {norm(text)}} : TRUE

(***************************************************************************)
(* the locale resolvers over a pool of inputs                              *)
(***************************************************************************)
Resolvers ==
  {"parse_date_any", "parse_range", "phone_candidates", "country_from_phone",
   "country_from_tld", "normalize_country", "country_from_text"}

\* inputs no resolver can resolve
Unresolved == {<<"q","w","e","r","t","y">>, <<"X","y","z">>}

ResolverInputs ==
  Unresolved \cup
  { NotAStr, <<>>, <<"o","t","t","o","b","r","e"," ","2","0","1","9">>, <<"2","0","1","9"," ","-"," ","2","0","2","1">>, <<"2","0","2","0",".","5">>, <<"+","3","9"," ","3","3","3"," ","1","2","3","4","5","6","7">>,
    <<"+","3","9","3","3","3","1","2","3","4","5","6","7">>, <<"+","3","9"," ","3","3","3">>, <<"m","a","r","i","o","@","a","c","m","e",".","i","t">>, <<"w","w","w",".","a","c","m","e",".","c","o",".","u","k">>,
    <<"I","t","a","l","i","a">>, <<"i","t">>, <<"U",".","K",".">>, <<"R","o","m","e",","," ","I","t","a","l","y">> }

InitResolvers ==
  /\ pc = "call"
  /\ callee \in Resolvers
  /\ arg \in {[s |-> x] : x \in ResolverInputs}
  /\ ret = NoValue

CallParseDateAny == Returns("parse_date_any", parse_date_any(arg.s))

CallParseRangeOf == Returns("parse_range", parse_range(arg.s))

CallPhoneCandidates == Returns("phone_candidates", phone_candidates(arg.s))

CallCountryFromPhone == Returns("country_from_phone", country_from_phone(arg.s))

CallCountryFromTld == Returns("country_from_tld", country_from_tld(arg.s))

CallNormalizeCountry == Returns("normalize_country", normalize_country(arg.s))

CallCountryFromText == Returns("country_from_text", country_from_text(arg.s))

NextResolvers ==
  \/ CallParseDateAny
  \/ CallParseRangeOf
  \/ CallPhoneCandidates
  \/ CallCountryFromPhone
  \/ CallCountryFromTld
  \/ CallNormalizeCountry
  \/ CallCountryFromText

SpecResolvers == InitResolvers /\ [][NextResolvers]_vars

\* what a resolver returns for an input it cannot resolve
UnresolvedResult(f, s) ==
  CASE f \in {"parse_date_any", "normalize_country"} -> norm(s)
    [] f = "parse_range" -> <<norm(s), <<>>>>
    [] OTHER -> <<>>

\* C7 as stated: for an input that cannot be resolved, every resolver returns ''
\* (an empty list, a pair of '')
C7_EmptyOnFailure ==
  (pc = "done" /\ arg.s \in Unresolved) =>
    ret = IF callee = "parse_range" THEN <<<<>>, <<>>>> ELSE <<>>

\* C7: every resolver returns for every input; for an input that cannot be resolved,
\* parse_date_any and normalize_country return the cleaned input, parse_range the
\* pair (cleaned input, ''), phone_candidates an empty list, and country_from_phone,
\* country_from_tld and country_from_text ''
C7_Totality ==
  /\ pc = "done" => ret \in Seq(Seq(STRING)) \cup Seq(STRING)
  /\ (pc = "done" /\ arg.s \in Unresolved) => ret = UnresolvedResult(callee, arg.s)

C7_Witness ==
  /\ Done("parse_date_any")
  /\ arg.s = <<"q","w","e","r","t","y">>
  /\ ret = <<"q","w","e","r","t","y">>

(***************************************************************************)
(* parsers.py: contacts                                                    *)
(***************************************************************************)
MaxCutoffScan == 200

HeaderZone == 120

TopZone == 80

MaxCityLen == 48

\* [\w\.-]+@[\w\.-]+\.\w+
EMAIL_RX ==
  Cat(<<Plus(Cls(WordCh \cup {".", "-"})), Lit(<<"@">>), Plus(Cls(WordCh \cup {".", "-"})),
        Lit(<<".">>), Plus(ReW)>>)

UrlPrefixRx ==
  Cat(<<Opt(Cat(<<Lit(<<"h","t","t","p">>), Opt(Lit(<<"s">>)), Lit(<<":","/","/">>)>>)), Opt(Lit(<<"w","w","w",".">>))>>)

\* (https?://)?(www\.)?linkedin\.com/[^\s,;]+
LINKEDIN_RX ==
  Cat(<<UrlPrefixRx, Lit(<<"l","i","n","k","e","d","i","n",".","c","o","m","/">>), Plus(NotCls(Space \cup {",", ";"}))>>)

\* (https?://)?(www\.)?github\.com/[^\s,;]+
GITHUB_RX ==
  Cat(<<UrlPrefixRx, Lit(<<"g","i","t","h","u","b",".","c","o","m","/">>), Plus(NotCls(Space \cup {",", ";"}))>>)

\* (https?://[^\s]+|www\.[^\s]+)
WEB_RX ==
  Alt(<<Cat(<<Lit(<<"h","t","t","p">>), Opt(Lit(<<"s">>)), Lit(<<":","/","/">>), Plus(NotCls(Space))>>),
        Cat(<<Lit(<<"w","w","w",".">>), Plus(NotCls(Space))>>)>>)

\* \b(experien|employment|impiego|beruf|lavor|career|history|work|educat|formaz|
\* ausbild|stud|school|univers|degree|training)\b
CutoffRx ==
  Cat(<<WordB,
        Alt(<<Lit(<<"e","x","p","e","r","i","e","n">>), Lit(<<"e","m","p","l","o","y","m","e","n","t">>), Lit(<<"i","m","p","i","e","g","o">>), Lit(<<"b","e","r","u","f">>),
              Lit(<<"l","a","v","o","r">>), Lit(<<"c","a","r","e","e","r">>), Lit(<<"h","i","s","t","o","r","y">>), Lit(<<"w","o","r","k">>),
              Lit(<<"e","d","u","c","a","t">>), Lit(<<"f","o","r","m","a","z">>), Lit(<<"a","u","s","b","i","l","d">>), Lit(<<"s","t","u","d">>),
              Lit(<<"s","c","h","o","o","l">>), Lit(<<"u","n","i","v","e","r","s">>), Lit(<<"d","e","g","r","e","e">>), Lit(<<"t","r","a","i","n","i","n","g">>)>>),
        WordB>>)

AddressWordRx == Cat(<<Cls(AsciiUpper \cup {"Agrave"}), Plus(Cls(AsciiLower \cup {"agrave"}))>>)

AddressTokens(s, tokens) ==
  /\ 8 <= Len(s) /\ Len(s) <= 120
  /\ ~Contains(s, <<":">>)
  /\ \E i \in DOMAIN tokens : \E j \in DOMAIN tokens[i] : tokens[i][j] \in Digit
  /\ \E i \in DOMAIN tokens : MatchParts(<<AddressWordRx>>, 1, tokens[i], 1, FALSE) # <<>>
  /\ Cardinality({i \in DOMAIN tokens : \E j \in DOMAIN tokens[i] : tokens[i][j] \in Alpha}) >= 2

AddressOfStripped(s) == AddressTokens(s, SplitWS(s))

_looks_like_address(line) == AddressOfStripped(StripOf(line, {" ", ",", ";", "."}))

WithScheme(u) == IF StartsWith(u, <<"h","t","t","p">>) THEN u ELSE <<"h","t","t","p","s",":","/","/">> \o u

UrlOf(m) == IF m = <<>> THEN <<>> ELSE WithScheme(m)

EmailOf(joined) == MatchText(joined, Search(EMAIL_RX, joined, FALSE))

LinkedinOf(joined) == UrlOf(MatchText(joined, Search(LINKEDIN_RX, joined, TRUE)))

GithubOf(joined) == UrlOf(MatchText(joined, Search(GITHUB_RX, joined, TRUE)))

WebOf(joined) ==
  UrlOf(FirstOr(SelectSeq(FindAll(WEB_RX, joined, TRUE),
                          LAMBDA w : ~Contains(w, <<"l","i","n","k","e","d","i","n",".","c","o","m">>)
                                     /\ ~Contains(w, <<"g","i","t","h","u","b",".","c","o","m">>)),
                <<>>))

\* phone -> TLD -> text
CountryOr(a, b) == IF a # <<>> THEN a ELSE b

TldCountry(srcs) ==
  FirstOr(SelectSeq(MapSeq(country_from_tld, SelectSeq(srcs, LAMBDA x : x # <<>>)),
                    LAMBDA c : c # <<>>),
          <<>>)

PhoneCountry(telefono) == IF telefono # <<>> THEN country_from_phone(telefono) ELSE <<>>

\* the country with the TLD sources before the phone number
CountryOf_TldFirst(telefono, srcs, top) ==
  CountryOr(CountryOr(TldCountry(srcs), PhoneCountry(telefono)), country_from_text(top))

CountryOf(telefono, srcs, top) ==
  CountryOr(CountryOr(PhoneCountry(telefono), TldCountry(srcs)), country_from_text(top))

\* \b(\d{5})\b
Cap5Rx == Cat(<<WordB, Rep(ReD, 5, 5), WordB>>)

\* \b(\d{4,6})\b
Cap46Rx == Cat(<<WordB, Rep(ReD, 4, 6), WordB>>)

\* the candidate kept whatever its value
NotYear_Keep(cand) == cand

NotYear(cand) ==
  IF cand # <<>> /\ ~(1900 <= IntOf(cand) /\ IntOf(cand) <= 2099) THEN cand ELSE <<>>

CapOf(paese, top) ==
  IF Lowered(paese) = <<"i","t","a","l","y">> THEN MatchText(top, Search(Cap5Rx, top, FALSE))
  ELSE NotYear(MatchText(top, Search(Cap46Rx, top, FALSE)))

\* \b(citt[aà]|city)\s*[:\-]\s*([A-Z][A-Za-zÀ-ÿ' -]{1,48})\b
CityLabelParts ==
  << WordB,
     Alt(<<Cat(<<Lit(<<"c","i","t","t">>), Cls({"a", "agrave"})>>), Lit(<<"c","i","t","y">>)>>),
     Cat(<<Star(ReS), Cls({":", "-"}), Star(ReS)>>),
     Cat(<<Cls(AsciiUpper), Rep(Cls(Alpha \cup {"'", " ", "-"}), 1, MaxCityLen)>>),
     WordB >>

\* \s*\(.+?\)$
TailParenRx == Cat(<<Star(ReS), Lit(<<"(">>), LazyRep(AnyCh, 1, -1), Lit(<<")">>), Eol>>)

LabelledCity(l, m) ==
  IF m = <<>> THEN <<>> ELSE Strip(Sub(TailParenRx, <<>>, Strip(Group(l, m, 4)), FALSE))

CityLabelOf(l) == LabelledCity(l, SearchParts(CityLabelParts, l, TRUE))

IsOwnCountry(c, n) == n # <<>> /\ Lowered(n) = Lowered(c)

CityCandidate(s, c) ==
  IF c = None THEN <<>>
  ELSE IF IsOwnCountry(c, normalize_country(c)) THEN <<>>
  ELSE c

CityOfLine(s) ==
  IF Contains(s, <<":">>) THEN <<>>
  ELSE IF Len(s) > MaxCityLen \/ Len(SplitWS(s)) > 3 THEN <<>>
  ELSE CityCandidate(s, _looks_like_city(s))

FirstNonEmpty(xs) == FirstOr(SelectSeq(xs, LAMBDA x : x # <<>>), <<>>)

CityOf(lines) ==
  CountryOr(FirstNonEmpty(MapSeq(CityLabelOf, lines)),
            FirstNonEmpty(MapSeq(LAMBDA l : CityOfLine(Strip(l)), lines)))

\* \b(paese|nazionalit[aà]|data di nascita|luogo di nascita|sesso|citt[aà]|indirizzo|
\* address|email|telefono|phone)\b
LabelishRx ==
  Cat(<<WordB,
        Alt(<<Lit(<<"p","a","e","s","e">>), Cat(<<Lit(<<"n","a","z","i","o","n","a","l","i","t">>), Cls({"a", "agrave"})>>),
              Lit(<<"d","a","t","a"," ","d","i"," ","n","a","s","c","i","t","a">>), Lit(<<"l","u","o","g","o"," ","d","i"," ","n","a","s","c","i","t","a">>), Lit(<<"s","e","s","s","o">>),
              Cat(<<Lit(<<"c","i","t","t">>), Cls({"a", "agrave"})>>), Lit(<<"i","n","d","i","r","i","z","z","o">>),
              Lit(<<"a","d","d","r","e","s","s">>), Lit(<<"e","m","a","i","l">>), Lit(<<"t","e","l","e","f","o","n","o">>), Lit(<<"p","h","o","n","e">>)>>),
        WordB>>)

IsStreetLine(l) ==
  /\ ~(Contains(l, <<":">>) /\ Matches(LabelishRx, l, TRUE))
  /\ _looks_like_address(l)

ViaOf(lines) ==
  StripOf(FirstOr(SelectSeq(lines, IsStreetLine), <<>>), {" ", ",", ";", "."})

Nth(xs, n) == IF Len(xs) >= n THEN xs[n] ELSE <<>>

ContactsIn(lines, top, email, linkedin, github, sito_web, phones, paese) ==
  [indirizzo |-> [via |-> ViaOf(FirstN(lines, HeaderZone)),
                  citta |-> CityOf(FirstN(lines, HeaderZone)),
                  cap |-> CapOf(paese, top), provincia |-> <<>>, paese |-> paese],
   telefono |-> Nth(phones, 1), cellulare |-> Nth(phones, 2),
   email |-> email, linkedin |-> linkedin, sito_web |-> sito_web, github |-> github]

ContactsWith(lines, top, email, linkedin, github, sito_web, phones) ==
  CHOOSE out \in
    {ContactsIn(lines, top, email, linkedin, github, sito_web, phones, normalize_country(c)) :
       c \in {CountryOf(Nth(phones, 1), <<sito_web, email, linkedin, github>>, top)}} : TRUE

ContactsOf(lines, joined) ==
  CHOOSE out \in
    {ContactsWith(lines, Join(FirstN(lines, TopZone), <<"NL">>), email, linkedin, github,
                  sito_web, phones) :
       email \in {EmailOf(joined)}, linkedin \in {LinkedinOf(joined)},
       github \in {GithubOf(joined)}, sito_web \in {WebOf(joined)},
       phones \in {phone_candidates(joined)}} : TRUE

CutoffAt(hit) == IF hit = {} THEN HeaderZone ELSE MinOf(hit) - 1

CutoffOf(ls) ==
  CutoffAt({i \in DOMAIN ls : _is_heading(ls[i]) /\ Matches(CutoffRx, Lowered(ls[i]), TRUE)})

\* the header zone: the lines before the first work/education heading
HeaderLines(all_lines) == FirstN(all_lines, CutoffOf(FirstN(all_lines, MaxCutoffScan)))

ContactsOfLines(lines) ==
  CHOOSE out \in {ContactsOf(lines, joined) : joined \in {Join(lines, <<"NL">>)}} : TRUE

extract_contacts(text) ==
  CHOOSE out \in {ContactsOfLines(HeaderLines(NonNoise(all_lines))) :
                    all_lines \in {SplitLines(norm(text))}} : TRUE

(***************************************************************************)
(* extract_contacts over every header of at most MaxContactLines lines     *)
(***************************************************************************)
MaxContactLines == 3

ContactLines ==
  { <<"M","i","l","a","n","o">>, <<"I","t","a","l","y">>, <<"C","i","t","t","agrave",":"," ","G","e","n","o","v","a"," ","(","I","t","a","l","i","a",")">>, <<"c","i","t","y"," ","-"," ","R","o","m","e">>, <<"V","i","a"," ","R","o","m","a"," ","1","2">>,
    <<"m","a","r","i","o","@","a","c","m","e",".","i","t">> }

InitContacts ==
  /\ pc = "call"
  /\ callee = "extract_contacts"
  /\ arg \in {[text |-> TextOf(ls)] : ls \in SeqsUpTo(ContactLines, MaxContactLines)}
  /\ ret = NoValue

CallExtractContacts == Returns("extract_contacts", extract_contacts(arg.text))

NextContacts == CallExtractContacts

SpecContacts == InitContacts /\ [][NextContacts]_vars

\* a line of 1-3 capitalized words
IsCapitalizedLine(l) == MatchParts(<<CityRx>>, 1, l, 1, FALSE) # <<>>

\* a name pycountry resolves
IsCountryName(l) == ~countries_lookup(l).exc

\* the header lines that qualify as a city by position alone
PlainCities ==
  SelectSeq(NormLines,
            LAMBDA l : IsCapitalizedLine(l) /\ ~Contains(l, <<":">>) /\ ~IsCountryName(l))

\* C5: citta is the value of the first 'città:'/'city:' label without its trailing
\* parenthetical; without a label it is the first line of 1-3 capitalized words that
\* has no ':' and is not a resolvable country name
C5_CityResolution ==
  Done("extract_contacts") =>
    ret.indirizzo.citta =
      CountryOr(FirstNonEmpty(MapSeq(CityLabelOf, NormLines)), FirstOr(PlainCities, <<>>))

(***************************************************************************)
(* parsers.py: personal data                                               *)
(***************************************************************************)
Ws == Star(ReS)

_LBL_DOB ==
  Alt(<<Cat(<<Lit(<<"d","a","t","a">>), Ws, Lit(<<"d","i">>), Ws, Lit(<<"n","a","s","c","i","t","a">>)>>),
        Cat(<<Lit(<<"d","a","t","e">>), Ws, Lit(<<"o","f">>), Ws, Lit(<<"b","i","r","t","h">>)>>),
        Lit(<<"d","o","b">>), Lit(<<"g","e","b","u","r","t","s","d","a","t","u","m">>),
        Cat(<<Lit(<<"f","e","c","h","a">>), Ws, Lit(<<"d","e">>), Ws, Lit(<<"n","a","c","i","m","i","e","n","t","o">>)>>),
        Cat(<<Lit(<<"d","a","t","e">>), Ws, Lit(<<"d","e">>), Ws, Lit(<<"n","a","i","s","s","a","n","c","e">>)>>)>>)

_LBL_POB ==
  Alt(<<Cat(<<Lit(<<"l","u","o","g","o">>), Ws, Lit(<<"d","i">>), Ws, Lit(<<"n","a","s","c","i","t","a">>)>>),
        Cat(<<Lit(<<"p","l","a","c","e">>), Ws, Lit(<<"o","f">>), Ws, Lit(<<"b","i","r","t","h">>)>>),
        Lit(<<"g","e","b","u","r","t","s","o","r","t">>),
        Cat(<<Lit(<<"l","u","g","a","r">>), Ws, Lit(<<"d","e">>), Ws, Lit(<<"n","a","c","i","m","i","e","n","t","o">>)>>),
        Cat(<<Lit(<<"l","i","e","u">>), Ws, Lit(<<"d","e">>), Ws, Lit(<<"n","a","i","s","s","a","n","c","e">>)>>)>>)

_LBL_NAT ==
  Alt(<<Cat(<<Lit(<<"n","a","z","i","o","n","a","l","i","t">>), Cls({"a", "agrave"})>>), Lit(<<"n","a","t","i","o","n","a","l","i","t","y">>),
        Cat(<<Lit(<<"n","a","t","i","o","n","a","l","i","t">>), Cls({"y", "eacute", "egrave"})>>)>>)

_LBL_SEX == Alt(<<Lit(<<"s","e","s","s","o">>), Lit(<<"s","e","x">>), Lit(<<"g","e","n","r","e">>), Lit(<<"g","e","s","c","h","l","e","c","h","t">>), Lit(<<"s","e","x","o">>)>>)

_LBL_MSTAT ==
  Alt(<<Cat(<<Lit(<<"s","t","a","t","o">>), Ws, Lit(<<"c","i","v","i","l","e">>)>>),
        Cat(<<Lit(<<"m","a","r","i","t","a","l">>), Ws, Lit(<<"s","t","a","t","u","s">>)>>), Lit(<<"f","a","m","i","l","i","e","n","s","t","a","n","d">>),
        Cat(<<Lit(<<"e","s","t","a","d","o">>), Ws, Lit(<<"c","i","v","i","l">>)>>),
        Cat(<<Lit(<<"s","i","t","u","a","t","i","o","n">>), Ws, Lit(<<"f","a","m","i","l","i","a","l","e">>)>>)>>)

\* ^\s*[:\-–—]\s*
LeadSepRx == Cat(<<Bol, Ws, Cls({":", "-", "ENDASH", "EMDASH"}), Ws>>)

\* \s*\([^)]*\)\s*$
TailParensRx == Cat(<<Ws, Lit(<<"(">>), Star(NotCls({")"})), Lit(<<")">>), Ws, Eol>>)

_clean_tail(v) ==
  StripOf(Sub(TailParensRx, <<>>, Sub(LeadSepRx, <<>>, norm(v), FALSE), FALSE),
          {" ", ",", ";", ":", "|"})

DateTokenRxs ==
  << Cat(<<WordB, Rep(ReD, 1, 2), DateSepRx, Rep(ReD, 1, 2), DateSepRx, Rep(ReD, 2, 4), WordB>>),
     Cat(<<WordB, Rep(ReD, 1, 2), DateSepRx, Rep(ReD, 4, 4), WordB>>),
     Cat(<<WordB, Rep(Cls(Alpha), 3, 15), Plus(ReS), Rep(ReD, 4, 4), WordB>>),
     Cat(<<WordB, DateYearRx, WordB>>) >>

DateTokenOf(s) ==
  FirstNonEmpty(MapSeq(LAMBDA rx : MatchText(s, Search(rx, s, FALSE)), DateTokenRxs))

_first_date_token(s) == DateTokenOf(norm(s))

NextOr(nxt) == IF nxt # <<>> /\ ~is_noise(nxt) THEN nxt ELSE <<>>

TailOr(tail, lines, i) ==
  IF tail # <<>> THEN tail
  ELSE IF i < Len(lines) THEN NextOr(_clean_tail(lines[i + 1]))
  ELSE <<>>

PickTail(lines, i, m) ==
  IF m = <<>> THEN <<>>
  ELSE TailOr(_clean_tail(Slice(lines[i], m[2], Len(lines[i]) + 1)), lines, i)

\* 'Label: value' on the line, else the next line; None as ''
_pick_after_label(lines, lbl_rx) ==
  FirstNonEmpty([i \in DOMAIN lines |-> PickTail(lines, i, Search(lbl_rx, lines[i], TRUE))])

_format_date_it(d) ==
  IF IsIso(d) THEN SubSeq(d, 9, 10) \o <<"/">> \o SubSeq(d, 6, 7) \o <<"/">> \o SubSeq(d, 1, 4)
  ELSE d

SexOfFirst(s, m) ==
  IF m = <<>> THEN s
  ELSE IF ToLower(s[m[1]]) = "f" THEN <<"F">>
  ELSE IF ToLower(s[m[1]]) = "m" THEN <<"M">>
  ELSE s

SexOfNorm(s) == SexOfFirst(s, Search(Cls(Alpha), s, FALSE))

_normalize_sex_minimal(val) == SexOfNorm(norm(val))

OrToken(token, raw) == IF token # <<>> THEN token ELSE raw

BirthDate(dob_raw) ==
  IF dob_raw = <<>> THEN <<>>
  ELSE _format_date_it(parse_date_any(OrToken(_first_date_token(dob_raw), dob_raw)))

\* \b(paese|country|state|nation|citt[aà]|city)\b
PlaceCutRx ==
  Cat(<<WordB,
        Alt(<<Lit(<<"p","a","e","s","e">>), Lit(<<"c","o","u","n","t","r","y">>), Lit(<<"s","t","a","t","e">>), Lit(<<"n","a","t","i","o","n">>),
              Cat(<<Lit(<<"c","i","t","t">>), Cls({"a", "agrave"})>>), Lit(<<"c","i","t","y">>)>>),
        WordB>>)

\* \b(data|luogo|born|birth|citt[aà]|city|paese|country)\b
NationCutRx ==
  Cat(<<WordB,
        Alt(<<Lit(<<"d","a","t","a">>), Lit(<<"l","u","o","g","o">>), Lit(<<"b","o","r","n">>), Lit(<<"b","i","r","t","h">>),
              Cat(<<Lit(<<"c","i","t","t">>), Cls({"a", "agrave"})>>), Lit(<<"c","i","t","y">>), Lit(<<"p","a","e","s","e">>),
              Lit(<<"c","o","u","n","t","r","y">>)>>),
        WordB>>)

CutAt(raw, rx) ==
  IF raw = <<>> THEN <<>>
  ELSE StripOf(Split(rx, _clean_tail(raw), 1, TRUE)[1], {" ", ",", ";"})

SexOf(sex_raw) == IF sex_raw = <<>> THEN <<>> ELSE _normalize_sex_minimal(sex_raw)

CleanOf(raw) == IF raw = <<>> THEN <<>> ELSE _clean_tail(raw)

PersonalOf(lines) ==
  [data_nascita |-> BirthDate(_pick_after_label(lines, _LBL_DOB)),
   luogo_nascita |-> CutAt(_pick_after_label(lines, _LBL_POB), PlaceCutRx),
   nazionalita |-> CutAt(_pick_after_label(lines, _LBL_NAT), NationCutRx),
   sesso |-> SexOf(_pick_after_label(lines, _LBL_SEX)),
   stato_civile |-> CleanOf(_pick_after_label(lines, _LBL_MSTAT))]

extract_personal_block(text) == PersonalOf(NonNoise(SplitLines(norm(text))))

(***************************************************************************)
(* parsers.py: languages and skills                                        *)
(***************************************************************************)
MaxLanguages == 5

MaxLanguageLen == 24

MaxSkillLen == 160

MaxSkills == 150

\* (A1|A2|B1|B2|C1|C2)
LevelRx ==
  Alt(<<Lit(<<"A","1">>), Lit(<<"A","2">>), Lit(<<"B","1">>), Lit(<<"B","2">>), Lit(<<"C","1">>), Lit(<<"C","2">>)>>)

LeftText(line, m) ==
  IF m = <<>> THEN None
  ELSE Strip(StripOf(Group(line, m, 1), {" ", ":", "ENDASH", "EMDASH", "-", "|", "BULLET"}))

\* (.+?)\b(A1|A2|B1|B2|C1|C2)\b
_left_of_level(line) ==
  LeftText(line, SearchParts(<<LazyRep(AnyCh, 1, -1), WordB, LevelRx, WordB>>, line, TRUE))

Language(lingua, lvl) ==
  [lingua |-> lingua, livello_scritto |-> lvl, livello_parlato |-> lvl,
   certificazioni |-> <<>>]

LevelledOf(ln, left) ==
  IF left = None THEN <<>>
  ELSE <<Language(left, Uppered(MatchText(ln, Search(LevelRx, ln, TRUE))))>>

Levelled(lines) == FlatMap(LAMBDA ln : LevelledOf(ln, _left_of_level(ln)), lines)

\* [^\d\W][\wÀ-ÿ' -]{1,23}
LanguageLineRx ==
  Cat(<<Cls(Alpha \cup {"_"}), Rep(Cls(WordCh \cup {"'", " ", "-"}), 1, 23)>>)

MostlyCapitalized(words) ==
  2 * Cardinality({i \in DOMAIN words : words[i][1] \in Upper}) >= Max(1, Len(words))

IsLanguageLine(ln) ==
  /\ Len(ln) <= MaxLanguageLen
  /\ FullMatch(LanguageLineRx, ln, FALSE)
  /\ MostlyCapitalized(SplitWS(ln))

Unlevelled(lines) ==
  MapSeq(LAMBDA ln : Language(Strip(ln), <<>>), SelectSeq(lines, IsLanguageLine))

OrUnlevelled(out, lines) == IF out = <<>> THEN Unlevelled(lines) ELSE out

\* the records without those whose name was seen before, names compared as written
DedupeLanguages_ExactCase(out) ==
  LET first == {i \in DOMAIN out :
                  \A j \in 1..(i - 1) : Strip(out[j].lingua) # Strip(out[i].lingua)}
  IN  MapSeq(LAMBDA i : out[i], SortedSeq(first))

DedupeLanguages(out) ==
  LET first == {i \in DOMAIN out :
                  \A j \in 1..(i - 1) :
                     Lowered(Strip(out[j].lingua)) # Lowered(Strip(out[i].lingua))}
  IN  MapSeq(LAMBDA i : out[i], SortedSeq(first))

LanguagesOf(lines) ==
  OrList(FirstN(DedupeLanguages(OrUnlevelled(Levelled(lines), lines)), MaxLanguages),
         Language(<<>>, <<>>))

OrText(a, b) == IF a # <<>> THEN a ELSE b

extract_languages(section_text, all_text) ==
  LanguagesOf(NonNoise(SplitLines(norm(OrText(section_text, all_text)))))

\* [••\-●,\n;]|  +
BulletRx ==
  Alt(<<Cls({"BULLET", "-", "BLACKCIRCLE", ",", "NL", ";"}), Cat(<<Lit(<<" ">>), Plus(Cls({" "}))>>)>>)

_tokenize_bullets(section_text, all_text) ==
  SelectSeq(MapSeq(norm, Split(BulletRx, OrText(section_text, all_text), 0, FALSE)),
            LAMBDA t : t # <<>>)

Skills(altre) ==
  [linguaggi_programmazione |-> <<>>, framework |-> <<>>, database |-> <<>>,
   strumenti |-> <<>>, metodologie |-> <<>>, altre_competenze |-> altre]

extract_skills(section_text, all_text) ==
  Skills(FirstN(dedupe_keep_order(
                  SelectSeq(_tokenize_bullets(section_text, all_text),
                            LAMBDA t : ~is_noise(t) /\ Len(t) <= MaxSkillLen)),
                MaxSkills))

(***************************************************************************)
(* parsers.py: parse_text_to_internal                                      *)
(***************************************************************************)
MaxTitles == 15

\* \blang(uage|uaggi|ues)?\b
LangTitleRx ==
  Cat(<<WordB, Lit(<<"l","a","n","g">>), Opt(Alt(<<Lit(<<"u","a","g","e">>), Lit(<<"u","a","g","g","i">>), Lit(<<"u","e","s">>)>>)), WordB>>)

\* \b(skill|competenze|habilidades|comp[ée]tences|f[äa]higkeiten)\b
SkillTitleRx ==
  Cat(<<WordB,
        Alt(<<Lit(<<"s","k","i","l","l">>), Lit(<<"c","o","m","p","e","t","e","n","z","e">>), Lit(<<"h","a","b","i","l","i","d","a","d","e","s">>),
              Cat(<<Lit(<<"c","o","m","p">>), Cls({"eacute", "e"}), Lit(<<"t","e","n","c","e","s">>)>>),
              Cat(<<Lit(<<"f">>), Cls({"auml", "a"}), Lit(<<"h","i","g","k","e","i","t","e","n">>)>>)>>),
        WordB>>)

\* \b(experien|employment|impiego|beruf|lavor|career|history|work)\b
ExperienceTitleRx ==
  Cat(<<WordB,
        Alt(<<Lit(<<"e","x","p","e","r","i","e","n">>), Lit(<<"e","m","p","l","o","y","m","e","n","t">>), Lit(<<"i","m","p","i","e","g","o">>), Lit(<<"b","e","r","u","f">>),
              Lit(<<"l","a","v","o","r">>), Lit(<<"c","a","r","e","e","r">>), Lit(<<"h","i","s","t","o","r","y">>), Lit(<<"w","o","r","k">>)>>),
        WordB>>)

\* \b(educat|formaz|ausbild|stud|school|univers|degree|training)\b
EducationTitleRx ==
  Cat(<<WordB,
        Alt(<<Lit(<<"e","d","u","c","a","t">>), Lit(<<"f","o","r","m","a","z">>), Lit(<<"a","u","s","b","i","l","d">>), Lit(<<"s","t","u","d">>),
              Lit(<<"s","c","h","o","o","l">>), Lit(<<"u","n","i","v","e","r","s">>), Lit(<<"d","e","g","r","e","e">>), Lit(<<"t","r","a","i","n","i","n","g">>)>>),
        WordB>>)

\* the body of the first section whose title matches, or ''
SectionFor(sections, rx) ==
  FirstOr(MapSeq(LAMBDA it : it.v,
                 SelectSeq(sections, LAMBDA it : Matches(rx, Lowered(it.k), FALSE))),
          <<>>)

LanguagesIn(lang_section) ==
  IF lang_section # <<>> THEN extract_languages(lang_section, lang_section) ELSE <<>>

SkillsIn(skills_section) ==
  IF skills_section # <<>> THEN extract_skills(skills_section, skills_section)
  ELSE Skills(<<>>)

Anagrafica(name, personal) ==
  [nome |-> name[1], cognome |-> name[2], data_nascita |-> personal.data_nascita,
   luogo_nascita |-> personal.luogo_nascita, nazionalita |-> personal.nazionalita,
   sesso |-> personal.sesso, stato_civile |-> personal.stato_civile]

Internal(text, sections, contacts, name) ==
  [anagrafica |-> Anagrafica(name, extract_personal_block(text)),
   contatti |-> contacts,
   istruzione |-> extract_education(SectionFor(sections, EducationTitleRx)),
   esperienze_lavorative |-> extract_experience(SectionFor(sections, ExperienceTitleRx)),
   competenze_tecniche |-> SkillsIn(SectionFor(sections, SkillTitleRx)),
   competenze_linguistiche |-> LanguagesIn(SectionFor(sections, LangTitleRx)),
   competenze_trasversali |-> <<>>, certificazioni |-> <<>>, progetti |-> <<>>,
   pubblicazioni |-> <<>>, interessi |-> <<>>, patente |-> <<>>,
   autorizzazione_trattamento_dati |-> extract_privacy(text),
   disponibilita |-> [trasferte |-> <<>>, trasferimento |-> <<>>,
                      tipo_contratto_preferito |-> <<>>],
   _meta |-> [section_titles |-> FirstN(DictKeys(sections), MaxTitles)]]

InternalWith(text, blocks, filename, sections, contacts) ==
  Internal(text, sections, contacts,
           infer_name(blocks, contacts.email, contacts.linkedin, filename,
                      DictKeys(sections)))

parse_text_to_internal(text, blocks, filename) ==
  InternalWith(text, blocks, filename, detect_sections(text), extract_contacts(text))

(***************************************************************************)
(* parse_text_to_internal over variations of a CV: a header (name, e-mail, *)
(* phone, city, postal code), an experience section, an optional section   *)
(***************************************************************************)
CvPhones == {<<<<"+","3","9"," ","3","3","3"," ","1","2","3","4","5","6","7">>>>, <<>>}

CvCities == {<<<<"M","i","l","a","n","o">>>>, <<<<"C","i","t","t","agrave",":"," ","M","i","l","a","n","o">>>>}

CvCaps == {<<<<"2","0","1","2","1">>>>, <<>>}

CvHeadings == {<<"E","S","P","E","R","I","E","N","Z","A"," ","L","A","V","O","R","A","T","I","V","A">>, <<"W","O","R","K">>}

CvDates == {<<"G","e","n","n","a","i","o"," ","2","0","2","0"," ","-"," ","p","r","e","s","e","n","t","e">>, <<"2","0","2","0"," ","-"," ","p","r","e","s","e","n","t","e">>, <<"0","3","/","2","0","2","0">>}

CvTails ==
  { <<>>, <<<<>>, <<"S","K","I","L","L","S">>, <<"P","y","t","h","o","n",","," ","S","Q","L">>>>, <<<<>>, <<"L","A","N","G","U","A","G","E","S">>, <<"E","n","g","l","i","s","h"," ","B","2">>>>,
    <<<<>>, <<"E","D","U","C","A","T","I","O","N">>, <<"L","a","u","r","e","a"," ","@"," ","P","o","l","i","m","i">>, <<"2","0","1","5"," ","-"," ","2","0","1","8">>>> }

CvFilenames == {<<>>, <<"c","v","_","m","a","r","i","o","_","b","i","a","n","c","h","i",".","p","d","f">>}

CvLines(phone, city, cap, heading, date, tail) ==
  <<<<"M","a","r","i","o"," ","B","i","a","n","c","h","i">>, <<"m","a","r","i","o",".","b","i","a","n","c","h","i","@","g","m","a","i","l",".","c","o","m">>>> \o phone \o city \o cap
  \o <<<<>>, heading, <<"D","e","v","e","l","o","p","e","r"," ","@"," ","A","c","m","e">>, date, <<"M","i","l","a","n","o">>, <<"S","v","i","l","u","p","p","o"," ","s","o","f","t","w","a","r","e",".">>>> \o tail

ScenarioText ==
  TextOf(CvLines(<<<<"+","3","9"," ","3","3","3"," ","1","2","3","4","5","6","7">>>>, <<<<"M","i","l","a","n","o">>>>, <<<<"2","0","1","2","1">>>>,
                 <<"E","S","P","E","R","I","E","N","Z","A"," ","L","A","V","O","R","A","T","I","V","A">>, <<"G","e","n","n","a","i","o"," ","2","0","2","0"," ","-"," ","p","r","e","s","e","n","t","e">>, <<>>))

InitParse ==
  /\ pc = "call"
  /\ callee = "parse_text_to_internal"
  /\ arg \in {[text |-> TextOf(CvLines(p, c, z, h, d, t)), blocks |-> "None", filename |-> f] :
                p \in CvPhones, c \in CvCities, z \in CvCaps, h \in CvHeadings,
                d \in CvDates, t \in CvTails, f \in CvFilenames}
             \cup {[text |-> <<>>, blocks |-> "None", filename |-> <<>>]}
  /\ ret = NoValue

CallParseTextToInternal ==
  Returns("parse_text_to_internal",
          parse_text_to_internal(arg.text, arg.blocks, arg.filename))

NextParse == CallParseTextToInternal

SpecParse == InitParse /\ [][NextParse]_vars

\* C3: for the scenario text parse_text_to_internal returns the e-mail, the phone in
\* E.164, citta 'Milano', paese 'Italy', cap '20121' and exactly one experience entry
\* with posizione 'Developer', azienda 'Acme', data_inizio '2020-01-01', data_fine ''
C3_Scenario ==
  (Done("parse_text_to_internal") /\ arg.text = ScenarioText) =>
    /\ ret.contatti.email = <<"m","a","r","i","o",".","b","i","a","n","c","h","i","@","g","m","a","i","l",".","c","o","m">>
    /\ ret.contatti.telefono = <<"+","3","9","3","3","3","1","2","3","4","5","6","7">>
    /\ ret.contatti.indirizzo.citta = <<"M","i","l","a","n","o">>
    /\ ret.contatti.indirizzo.paese = <<"I","t","a","l","y">>
    /\ ret.contatti.indirizzo.cap = <<"2","0","1","2","1">>
    /\ Len(ret.esperienze_lavorative) = 1
    /\ ret.esperienze_lavorative[1].posizione = <<"D","e","v","e","l","o","p","e","r">>
    /\ ret.esperienze_lavorative[1].azienda = <<"A","c","m","e">>
    /\ ret.esperienze_lavorative[1].data_inizio = <<"2","0","2","0","-","0","1","-","0","1">>
    /\ ret.esperienze_lavorative[1].data_fine = <<>>


(***************************************************************************)
(* _filename_tokens and infer_name over file names alone                   *)
(***************************************************************************)
MaxFilenameParts == 3

FilenameParts == {<<"C","V">>, <<"r","e","s","u","m","e">>, <<"M","a","r","i","o">>, <<"B","i","a","n","c","h","i">>, <<"2","0","2","3">>, <<"v","2">>}

FilenameExts == {<<>>, <<".","p","d","f">>, <<".","P","D","F">>}

FilenameExtras ==
  {<<>>, <<"C","V","_","M","a","r","i","o","_","B","i","a","n","c","h","i","_","2","0","2","3",".","p","d","f">>, <<"A","n","n","a"," ","R","o","s","s","i"," ","(","d","r","a","f","t",")"," ","v","2",".","P","D","F">>, <<"E","U","R","O","P","A","S","S","-","M","a","r","i","o","-","B","i","a","n","c","h","i","-","F","i","n","a","l","-","C","o","p","y",".","p","d","f">>, <<"M","a","r","i","o","_","B","i","a","n","c","h","i",".","d","o","c","x">>, <<"X","_","Y","_","M","a","r","i","o",".","p","d","f">>}

Filenames ==
  {Join(ps, <<"_">>) \o ext : ps \in SeqsUpTo(FilenameParts, MaxFilenameParts) \ {<<>>},
                           ext \in FilenameExts}
  \cup FilenameExtras

InitFilename ==
  /\ pc = "call"
  /\ callee \in {"_filename_tokens", "infer_name"}
  /\ arg \in [blocks : {"None"}, email : {<<>>}, linkedin : {<<>>},
              filename : Filenames, section_titles : {"None"}]
  /\ ret = NoValue

CallFilenameTokens == Returns("_filename_tokens", _filename_tokens(arg.filename))

CallInferNameOfFile ==
  Returns("infer_name",
          infer_name(arg.blocks, arg.email, arg.linkedin, arg.filename, arg.section_titles))

NextFilename == CallFilenameTokens \/ CallInferNameOfFile

SpecFilename == InitFilename /\ [][NextFilename]_vars

FillerWords ==
  {<<"c","v">>, <<"r","e","s","u","m","e">>, <<"c","u","r","r","i","c","u","l","u","m">>, <<"e","u","r","o","p","a","s","s">>, <<"f","i","n","a","l">>, <<"d","r","a","f","t">>, <<"c","o","p","y">>}

IsYearToken(t) == Len(t) = 4 /\ \A i \in DOMAIN t : t[i] \in Digit

IsVersionToken(t) ==
  /\ Len(t) >= 2
  /\ t[1] \in {"v", "V"}
  /\ \A i \in 2..Len(t) : t[i] \in Digit \cup {"."}

CleanToken(t) ==
  /\ IsAlphaStr(t)
  /\ Len(t) >= 2
  /\ ~EndsWith(Lowered(t), <<".","p","d","f">>)
  /\ Lowered(t) \notin FillerWords
  /\ ~IsYearToken(t)
  /\ ~IsVersionToken(t)

\* C11: the tokens of a file name hold no extension, no filler word in any letter
\* case, no 4-digit year and no version token; they are returned only when at
\* least 2 alphabetic tokens of length >= 2 remain, and only then does infer_name,
\* given the file name alone, produce a name; 'CV_Mario_Bianchi_2023.pdf' gives
\* ('Mario', 'Bianchi')
C11_FilenameSignal ==
  /\ Done("_filename_tokens") =>
       \/ ret = None
       \/ Len(ret) >= 2 /\ \A i \in DOMAIN ret : CleanToken(ret[i])
  /\ (Done("infer_name") /\ arg.email = <<>> /\ arg.linkedin = <<>>) =>
       \A toks \in {_filename_tokens(arg.filename)} :
         /\ (ret # <<<<>>, <<>>>>) <=> (toks # None)
         /\ toks # None => ret[1] = Capitalize(toks[1])
  /\ (Done("infer_name") /\ arg.filename = <<"C","V","_","M","a","r","i","o","_","B","i","a","n","c","h","i","_","2","0","2","3",".","p","d","f">>
        /\ arg.email = <<>> /\ arg.linkedin = <<>>) =>
       ret = <<<<"M","a","r","i","o">>, <<"B","i","a","n","c","h","i">>>>

C11_Witness ==
  /\ Done("infer_name")
  /\ arg.filename = <<"C","V","_","M","a","r","i","o","_","B","i","a","n","c","h","i","_","2","0","2","3",".","p","d","f">>
  /\ arg.email = <<>> /\ arg.linkedin = <<>>
  /\ ret = <<<<"M","a","r","i","o">>, <<"B","i","a","n","c","h","i">>>>


\* C12: for every input, the empty text with no blocks and no file name included,
\* the record returned by parse_text_to_internal has at least one entry in each of
\* istruzione, esperienze_lavorative and competenze_linguistiche
C12_WorstCase ==
  Done("parse_text_to_internal") =>
    /\ Len(ret.istruzione) >= 1
    /\ Len(ret.esperienze_lavorative) >= 1
    /\ Len(ret.competenze_linguistiche) >= 1


(***************************************************************************)
(* utils.py: _country_from_region_code, _country_from_tld_tuple            *)
(***************************************************************************)
RegionPair(c) == IF c = NoCountry THEN <<<<>>, <<>>>> ELSE <<c.alpha_2, c.name>>

_country_from_region_code(region_code) ==
  IF region_code = <<>> THEN <<<<>>, <<>>>>
  ELSE RegionPair(countries_get("alpha_2", Uppered(region_code)))

\* special = {"uk": "GB", "el": "GR"}
TldSpecial == <<[k |-> <<"u","k">>, v |-> <<"G","B">>], [k |-> <<"e","l">>, v |-> <<"G","R">>]>>

\* special.get(key, key)
SpecialCode(key) == IF DictHas(TldSpecial, key) THEN DictGet(TldSpecial, key) ELSE key

TldPairOfSuffix(suffix) ==
  IF suffix = <<>> THEN <<<<>>, <<>>>>
  ELSE _country_from_region_code(SpecialCode(Uppered(AfterLast(suffix, "."))))

_country_from_tld_tuple(url_or_email) ==
  IF url_or_email = <<>> THEN <<<<>>, <<>>>>
  ELSE TldPairOfSuffix(Lowered(tld_suffix(url_or_email)))

(***************************************************************************)
(* country_from_tld and _country_from_tld_tuple over URLs and e-mails      *)
(***************************************************************************)
TldPrefixes == {<<>>, <<"h","t","t","p","s",":","/","/">>, <<"h","t","t","p","s",":","/","/","w","w","w",".">>, <<"m","a","r","i","o","@">>}

TldDomains == {<<"e","x","a","m","p","l","e">>, <<"a","c","m","e">>}

TldEndings == {<<>>, <<".","i","t">>, <<".","d","e">>, <<".","c","o",".","u","k">>, <<".","u","k">>, <<".","c","o","m">>, <<".","e","l">>, <<".","g","r">>, <<".","I","T">>}

TldPaths == {<<>>, <<"/","c","v">>}

TldInputs ==
  {p \o d \o e \o q : p \in TldPrefixes, d \in TldDomains, e \in TldEndings, q \in TldPaths}

InitTld ==
  /\ pc = "call"
  /\ callee \in {"country_from_tld", "_country_from_tld_tuple"}
  /\ arg \in {[s |-> x] : x \in TldInputs}
  /\ ret = NoValue

CallCountryFromTldOf == Returns("country_from_tld", country_from_tld(arg.s))

CallCountryFromTldTuple == Returns("_country_from_tld_tuple", _country_from_tld_tuple(arg.s))

NextTld == CallCountryFromTldOf \/ CallCountryFromTldTuple

SpecTld == InitTld /\ [][NextTld]_vars

\* the country code the last label of a domain stands for: GB for uk, GR for el
CodeOfLabel(label) ==
  CASE label = <<"u","k">> -> <<"G","B">>
    [] label = <<"e","l">> -> <<"G","R">>
    [] OTHER -> Uppered(label)

CountryOfDomain(s) == countries_get("alpha_2", CodeOfLabel(AfterLast(HostOf(s), ".")))

\* C13: country_from_tld returns the name of the country whose code is the last
\* label of the domain, with uk standing for GB (United Kingdom) and el for GR
\* (Greece); _country_from_tld_tuple returns that country's code and name
C13_TldCountry ==
  /\ Done("country_from_tld") => ret = CountryOfDomain(arg.s).name
  /\ Done("_country_from_tld_tuple") => ret = RegionPair(CountryOfDomain(arg.s))


(***************************************************************************)
(* extract_contacts over headers with digit tokens                         *)
(***************************************************************************)
MaxCapLines == 3

CapLines ==
  {<<"2","0","2","1">>, <<"4","1","0","1","2">>, <<"I","t","a","l","y">>, <<"C","A","P"," ","2","0","1","2","1"," ","M","I">>, <<"1","8","9","9"," ","1","2","3","4","5","6">>, <<"W","O","R","K">>, <<"0","2","0","2","1">>}

InitCap ==
  /\ pc = "call"
  /\ callee = "extract_contacts"
  /\ arg \in {[text |-> TextOf(ls)] : ls \in SeqsUpTo(CapLines, MaxCapLines)}
  /\ ret = NoValue

NextCap == CallExtractContacts

SpecCap == InitCap /\ [][NextCap]_vars

\* the runs of digits of the first lines of the header zone
TopDigitTokens(text) ==
  Range(FindAll(Plus(ReD),
                TextOf(FirstN(HeaderLines(NonNoise(SplitLines(norm(text)))), TopZone)),
                FALSE))

IsCalendarYear(cap) == 1900 <= IntOf(cap) /\ IntOf(cap) <= 2099

\* C14: indirizzo.cap is '' or a digit token of the top zone; with Italy as the
\* resolved country it has exactly 5 digits, otherwise 4 to 6 digits and a value
\* outside 1900..2099; with no country, the text '2021' gives '' and '41012'
\* gives '41012'
C14_PostalCode ==
  Done("extract_contacts") =>
    \A cap \in {ret.indirizzo.cap} :
      /\ \/ cap = <<>>
         \/ /\ cap \in TopDigitTokens(arg.text)
            /\ IF Lowered(ret.indirizzo.paese) = <<"i","t","a","l","y">> THEN Len(cap) = 5
               ELSE Len(cap) \in 4..6 /\ ~IsCalendarYear(cap)
      /\ arg.text = <<"2","0","2","1">> => ret.indirizzo.paese = <<>> /\ cap = <<>>
      /\ arg.text = <<"4","1","0","1","2">> => ret.indirizzo.paese = <<>> /\ cap = <<"4","1","0","1","2">>

C14_Witness ==
  /\ Done("extract_contacts")
  /\ arg.text = <<"4","1","0","1","2">>
  /\ ret.indirizzo.paese = <<>>
  /\ ret.indirizzo.cap = <<"4","1","0","1","2">>


(***************************************************************************)
(* extract_contacts over headers whose sources name different countries    *)
(***************************************************************************)
MaxCountryLines == 3

CountryLines ==
  {<<"+","3","9"," ","3","3","3"," ","1","2","3","4","5","6","7">>, <<"w","w","w",".","a","c","m","e",".","d","e">>, <<"m","a","r","i","o","@","a","c","m","e",".","g","r">>, <<"l","i","n","k","e","d","i","n",".","c","o","m","/","i","n","/","m","a","r","i","o","-","b","i","a","n","c","h","i">>,
   <<"g","i","t","h","u","b",".","c","o","m","/","m","a","r","i","o">>, <<"U","n","i","t","e","d"," ","K","i","n","g","d","o","m">>}

InitCountry ==
  /\ pc = "call"
  /\ callee = "extract_contacts"
  /\ arg \in {[text |-> TextOf(ls)] : ls \in SeqsUpTo(CountryLines, MaxCountryLines)}
  /\ ret = NoValue

NextCountry == CallExtractContacts

SpecCountry == InitCountry /\ [][NextCountry]_vars

\* country_from_phone / country_from_tld of a source that was found
PhoneCountryOf(telefono) == IF telefono = <<>> THEN <<>> ELSE country_from_phone(telefono)

TldCountryOf(src) == IF src = <<>> THEN <<>> ELSE country_from_tld(src)

TopText(text) == TextOf(FirstN(HeaderLines(NonNoise(SplitLines(norm(text)))), TopZone))

\* C15: the country is the first non-empty of: the country of the first phone
\* number; the TLD country of the web site, of the e-mail, of the LinkedIn URL, of
\* the GitHub URL; the country found in the first lines of the header zone
C15_CountryPriority ==
  Done("extract_contacts") =>
    ret.indirizzo.paese =
      FirstNonEmpty(<<PhoneCountryOf(ret.telefono), TldCountryOf(ret.sito_web),
                      TldCountryOf(ret.email), TldCountryOf(ret.linkedin),
                      TldCountryOf(ret.github), country_from_text(TopText(arg.text))>>)

\* a phone number, a web site and a country name that disagree: the phone wins
C15_Witness ==
  /\ Done("extract_contacts")
  /\ ret.telefono # <<>>
  /\ ret.indirizzo.paese = <<"I","t","a","l","y">>
  /\ TldCountryOf(ret.sito_web) = <<"G","e","r","m","a","n","y">>
  /\ country_from_text(TopText(arg.text)) = <<"U","n","i","t","e","d"," ","K","i","n","g","d","o","m">>


(***************************************************************************)
(* norm over every string of at most MaxNormLen characters                 *)
(***************************************************************************)
MaxNormLen == 5

NormChars == {" ", "TAB", "CR", "NL", "ZWSP", "BOM", "a"}

NormExtras ==
  {NotAStr,
   <<"a", " ", "ZWSP", " ", "b">>,
   <<"BOM", "a", "TAB", " ", "b", "CR", "NL", " ", "c", " ", "NL">>,
   <<"a", "CR", "ZWSP", "NL", "CR", "b", "TAB", "ZWSP">>}

InitNorm ==
  /\ pc = "call"
  /\ callee = "norm"
  /\ arg \in {[s |-> x] : x \in SeqsUpTo(NormChars, MaxNormLen) \cup NormExtras}
  /\ ret = NoValue

CallNorm == Returns("norm", norm(arg.s))

NextNorm == CallNorm

SpecNorm == InitNorm /\ [][NextNorm]_vars

\* C16: norm is idempotent, norm(norm(s)) = norm(s), and returns the empty
\* string for an input that is not a string
C16_NormIdempotent ==
  Done("norm") =>
    /\ norm(ret) = ret
    /\ arg.s = NotAStr => ret = <<>>

\* an input with invisible characters, blanks, a tab and a CR LF that norm changes
C16_Witness ==
  /\ Done("norm")
  /\ arg.s = <<"BOM", "a", "TAB", " ", "b", "CR", "NL", " ", "c", " ", "NL">>
  /\ ret = <<"a", " ", "b", "NL", "c">>


(***************************************************************************)
(* extract_experience and extract_education over section texts of short    *)
(* lines, some of them noise, and over texts of more than MaxParagraphs    *)
(* paragraphs                                                              *)
(***************************************************************************)
MaxParagraphLines == 4

ParagraphPool == {<<>>, <<"A","b">>, <<"-","-">>, <<"C","d"," ","@"," ","E","f">>}

\* MaxParagraphs + 1 paragraphs "Ab", each followed by a blank line
ManyParagraphs ==
  SubSeq([i \in 1..(4 * (MaxParagraphs + 1)) |->
            CASE i % 4 = 1 -> "A" [] i % 4 = 2 -> "b" [] OTHER -> "NL"],
         1, 4 * (MaxParagraphs + 1))

\* the same with a first paragraph that is noise
NoiseThenParagraphs == [ManyParagraphs EXCEPT ![1] = "-", ![2] = "-"]

InitPlaceholders ==
  /\ pc = "call"
  /\ callee \in {"extract_experience", "extract_education"}
  /\ arg \in {[section_text |-> TextOf(ls)] : ls \in SeqsUpTo(ParagraphPool, MaxParagraphLines)}
             \cup {[section_text |-> ManyParagraphs], [section_text |-> NoiseThenParagraphs]}
  /\ ret = NoValue

NextPlaceholders == CallExtractExperience \/ CallExtractEducation

SpecPlaceholders == InitPlaceholders /\ [][NextPlaceholders]_vars

\* the first lines of the paragraphs of the lines ls: a paragraph is a maximal run
\* of non-blank lines
ParaStarts(ls) == {i \in DOMAIN ls : ~IsBlank(ls[i]) /\ (i = 1 \/ IsBlank(ls[i - 1]))}

\* the first MaxParagraphs of the paragraphs ps that have a line that is not noise
EntryParas(ls, ps) ==
  {i \in ps : /\ Cardinality({k \in ps : k <= i}) <= MaxParagraphs
              /\ \E j \in i..Len(ls) : /\ \A k \in i..j : ~IsBlank(ls[k])
                                       /\ ~is_noise(ls[j])}

ExperienceFields ==
  {"posizione", "azienda", "citta", "paese", "data_inizio", "data_fine", "descrizione",
   "responsabilita", "risultati_ottenuti"}

EducationFields ==
  {"titolo_studio", "istituto", "citta", "paese", "data_inizio", "data_fine", "voto",
   "descrizione", "tesi"}

\* one record of the callee's fields, each '' or the empty list
IsPlaceholder(out) ==
  /\ Len(out) = 1
  /\ DOMAIN out[1] = IF callee = "extract_experience" THEN ExperienceFields
                     ELSE EducationFields
  /\ \A f \in DOMAIN out[1] : out[1][f] = <<>>

\* C18 as stated: the list is never empty, has at most 60 entries, one per
\* non-empty paragraph, and is the one placeholder record on the empty string
C18_PlaceholdersAsStated ==
  Done("extract_experience") \/ Done("extract_education") =>
    \A ps \in {ParaStarts(SplitLines(arg.section_text))} :
      /\ Len(ret) >= 1
      /\ Len(ret) <= MaxParagraphs
      /\ ps # {} => Len(ret) = Min(Cardinality(ps), MaxParagraphs)
      /\ arg.section_text = <<>> => IsPlaceholder(ret)

\* C18: extract_experience and extract_education return one entry for each of the
\* first 60 non-empty paragraphs that has a line that is not noise, and exactly
\* one placeholder record, all fields '' or empty, when there is no such
\* paragraph (the empty string included); the list is never empty
C18_Placeholders ==
  Done("extract_experience") \/ Done("extract_education") =>
    \A ls \in {SplitLines(arg.section_text)} :
      \A entries \in {EntryParas(ls, ParaStarts(ls))} :
        /\ Len(ret) >= 1
        /\ Len(ret) <= MaxParagraphs
        /\ entries # {} => Len(ret) = Cardinality(entries) /\ ~IsPlaceholder(ret)
        /\ entries = {} => IsPlaceholder(ret)

\* the empty string gives the one placeholder record
C18_Witness ==
  /\ Done("extract_education")
  /\ arg.section_text = <<>>
  /\ IsPlaceholder(ret)
  /\ ret[1].titolo_studio = <<>>

\* more than MaxParagraphs paragraphs give MaxParagraphs entries
C18_CapReached ==
  /\ Done("extract_experience")
  /\ Cardinality(ParaStarts(SplitLines(arg.section_text))) > MaxParagraphs
  /\ Len(ret) = MaxParagraphs


(***************************************************************************)
(* extract_languages over every section of at most MaxLanguageLines lines  *)
(***************************************************************************)
MaxLanguageLines == 3

LanguageLines ==
  {<<"E","n","g","l","i","s","h"," ","B","2">>, <<"e","n","g","l","i","s","h",":"," ","c","1">>, <<"I","t","a","l","i","a","n","o">>, <<"I","T","A","L","I","A","N","O">>, <<"-"," ","B","2">>, <<"a","b"," ","1","2">>, <<"D","e","u","t","s","c","h"," ","A","1">>}

\* seven language lines with a level, two of them the same language
ManyLanguages ==
  TextOf(<<<<"E","n","g","l","i","s","h"," ","B","2">>, <<"e","n","g","l","i","s","h",":"," ","c","1">>, <<"I","t","a","l","i","a","n","o"," ","C","1">>, <<"D","e","u","t","s","c","h"," ","A","1">>, <<"E","s","p","a","n","o","l"," ","A","2">>, <<"F","r","a","n","c","a","i","s"," ","B","1">>, <<"R","u","s","s","i","a","n"," ","C","2">>>>)

\* six language lines without a level
ManyUnlevelled ==
  TextOf(<<<<"E","n","g","l","i","s","h">>, <<"I","t","a","l","i","a","n","o">>, <<"D","e","u","t","s","c","h">>, <<"E","s","p","a","n","o","l">>, <<"F","r","a","n","c","a","i","s">>, <<"R","u","s","s","i","a","n">>>>)

InitLanguages ==
  /\ pc = "call"
  /\ callee = "extract_languages"
  /\ arg \in {[section_text |-> TextOf(ls), all_text |-> t] :
                ls \in SeqsUpTo(LanguageLines, MaxLanguageLines),
                t \in {<<>>, <<"E","s","p","a","n","o","l"," ","A","2">>}}
             \cup {[section_text |-> t, all_text |-> <<>>] : t \in {ManyLanguages, ManyUnlevelled}}
  /\ ret = NoValue

CallExtractLanguages ==
  Returns("extract_languages", extract_languages(arg.section_text, arg.all_text))

NextLanguages == CallExtractLanguages

SpecLanguages == InitLanguages /\ [][NextLanguages]_vars

\* the lines extract_languages reads: those of the section, or of the whole text
\* when the section is empty
LanguageText == NonNoise(SplitLines(norm(IF arg.section_text # <<>> THEN arg.section_text
                                         ELSE arg.all_text)))

\* a line with a level and a name before it, or a short capitalized line
IsLanguageEntry(ln) == _left_of_level(ln) # None \/ IsLanguageLine(ln)

LanguageKey(r) == Lowered(Strip(r.lingua))

\* C19: extract_languages returns between 1 and 5 records, no two with the same
\* name after trimming and lower-casing; the single record with lingua = '' and
\* empty levels is returned exactly when no language line was found
C19_Languages ==
  Done("extract_languages") =>
    /\ Len(ret) >= 1
    /\ Len(ret) <= 5
    /\ \A i, j \in DOMAIN ret : i # j => LanguageKey(ret[i]) # LanguageKey(ret[j])
    /\ (ret = <<[lingua |-> <<>>, livello_scritto |-> <<>>, livello_parlato |-> <<>>,
                 certificazioni |-> <<>>]>>)
         <=> (\A i \in DOMAIN LanguageText : ~IsLanguageEntry(LanguageText[i]))
    /\ \A i \in DOMAIN ret : ret[i].lingua = <<>> => Len(ret) = 1

\* seven language lines, two of them the same language in another case: the first
\* five distinct languages are returned
C19_Witness ==
  /\ Done("extract_languages")
  /\ arg.section_text = ManyLanguages
  /\ Len(ret) = 5
  /\ ret[1].lingua = <<"E","n","g","l","i","s","h">>
  /\ ret[2].lingua = <<"I","t","a","l","i","a","n","o">>
  /\ ret[5].lingua = <<"F","r","a","n","c","a","i","s">>

\* no language line: the placeholder record
C19_PlaceholderReached ==
  /\ Done("extract_languages")
  /\ arg.section_text = <<"a","b"," ","1","2">>
  /\ ret = <<Language(<<>>, <<>>)>>


(***************************************************************************)
(* extract_skills over every section of at most MaxSkillLines lines, over  *)
(* a text of more than MaxSkills tokens and over one with a token of more  *)
(* than MaxSkillLen characters                                             *)
(***************************************************************************)
MaxSkillLines == 3

SkillLines ==
  {<<"P","y","t","h","o","n">>, <<"p","y","t","h","o","n",","," ","S","Q","L">>, <<"S","Q","L",";"," ","G","i","t">>, <<"C">>, <<"-","-">>, <<"F","r","o","n","t","-","E","n","d"," "," ","a","p","i">>}

\* MaxSkills + 2 tokens of two letters, aa, AA, ac, ad, ..., each followed by a comma
ManySkills ==
  [SubSeq([i \in 1..(3 * (MaxSkills + 2)) |->
             CASE i % 3 = 1 -> LowerSeq[(((i - 1) \div 3) \div 26) + 1]
               [] i % 3 = 2 -> LowerSeq[(((i - 1) \div 3) % 26) + 1]
               [] OTHER -> ","],
          1, 3 * (MaxSkills + 2)) EXCEPT ![4] = "A", ![5] = "A"]

\* a token of MaxSkillLen + 1 characters, one of MaxSkillLen characters, and Git
LongSkills ==
  SubSeq([i \in 1..(2 * MaxSkillLen + 6) |->
            CASE i <= MaxSkillLen + 1 -> "x"
              [] i = MaxSkillLen + 2 -> ","
              [] i <= 2 * MaxSkillLen + 2 -> "y"
              [] i = 2 * MaxSkillLen + 3 -> ","
              [] OTHER -> <<"G","i","t">>[i - (2 * MaxSkillLen + 3)]],
         1, 2 * MaxSkillLen + 6)

InitSkills ==
  /\ pc = "call"
  /\ callee = "extract_skills"
  /\ arg \in {[section_text |-> TextOf(ls), all_text |-> t] :
                ls \in SeqsUpTo(SkillLines, MaxSkillLines), t \in {<<>>, <<"G","o",","," ","g","o">>}}
             \cup {[section_text |-> t, all_text |-> <<>>] : t \in {ManySkills, LongSkills}}
  /\ ret = NoValue

CallExtractSkills ==
  Returns("extract_skills", extract_skills(arg.section_text, arg.all_text))

NextSkills == CallExtractSkills

SpecSkills == InitSkills /\ [][NextSkills]_vars

\* the position in toks of the first token equal to t, letter case ignored
FirstPos(toks, t) == MinOf({p \in DOMAIN toks : Lowered(toks[p]) = Lowered(t)})

\* altre lists tokens of toks: each entry is a non-noise normalized token of at
\* most 160 characters, written as at its first occurrence; no two entries are
\* equal ignoring case; the entries are in the order of first occurrence; and
\* below 150 entries no admissible token is missing
SkillsOf(toks, altre) ==
  /\ Len(altre) <= 150
  /\ \A k \in DOMAIN altre :
       /\ \E p \in DOMAIN toks : Lowered(toks[p]) = Lowered(altre[k])
       /\ altre[k] = toks[FirstPos(toks, altre[k])]
       /\ ~is_noise(altre[k])
       /\ norm(altre[k]) = altre[k]
       /\ Len(altre[k]) <= 160
  /\ \A k, l \in DOMAIN altre :
       /\ k # l => Lowered(altre[k]) # Lowered(altre[l])
       /\ k < l => FirstPos(toks, altre[k]) < FirstPos(toks, altre[l])
  /\ \A p \in DOMAIN toks :
       ~is_noise(toks[p]) /\ Len(toks[p]) <= 160 =>
         \/ \E k \in DOMAIN altre : Lowered(altre[k]) = Lowered(toks[p])
         \/ /\ Len(altre) = 150
            /\ FirstPos(toks, altre[150]) < p

\* C20: extract_skills puts every token into altre_competenze and leaves the five
\* other buckets empty; altre_competenze has at most 150 entries, each a
\* non-noise normalized token of at most 160 characters, no two equal ignoring
\* letter case, in the order of each token's first occurrence in the input
C20_Skills ==
  Done("extract_skills") =>
    /\ DOMAIN ret = {"linguaggi_programmazione", "framework", "database", "strumenti",
                     "metodologie", "altre_competenze"}
    /\ \A b \in DOMAIN ret \ {"altre_competenze"} : ret[b] = <<>>
    /\ \A toks \in {_tokenize_bullets(arg.section_text, arg.all_text)} :
         SkillsOf(toks, ret.altre_competenze)

\* more than 150 distinct tokens, the second the first in capitals: the first 150
\* distinct tokens are returned
C20_Witness ==
  /\ Done("extract_skills")
  /\ arg.section_text = ManySkills
  /\ Len(ret.altre_competenze) = 150
  /\ ret.altre_competenze[1] = <<"a","a">>
  /\ ret.altre_competenze[2] = <<"a","c">>

\* the token of 161 characters is left out, the one of 160 is kept
C20_LongTokenReached ==
  /\ Done("extract_skills")
  /\ arg.section_text = LongSkills
  /\ Len(ret.altre_competenze) = 2
  /\ Len(ret.altre_competenze[1]) = 160
  /\ ret.altre_competenze[2] = <<"G","i","t">>


(***************************************************************************)
(* extractors.py: ocrspace_extract_text.  The request is built from the    *)
(* arguments and does not enter the result; the remote call (urllib) and   *)
(* json.loads are black boxes: a response is a network error, a body that  *)
(* is no JSON, or the JSON value of the body.  A JSON value is a record of *)
(* its type t and content v (the characters of a string, the items of a    *)
(* list, the key/value pairs of an object).                                *)
(***************************************************************************)
JNull == [t |-> "null", v |-> <<>>]

JNum(n) == [t |-> "num", v |-> <<n>>]

JStr(s) == [t |-> "str", v |-> s]

JList(xs) == [t |-> "list", v |-> xs]

JObj(pairs) == [t |-> "obj", v |-> pairs]

\* bool(x) of a decoded JSON value
Truthy(j) ==
  CASE j.t = "null" -> FALSE
    [] j.t = "num" -> j.v # <<0>>
    [] OTHER -> j.v # <<>>

\* x or default
OrValue(j, default) == IF Truthy(j) THEN j ELSE default

\* d.get(key): None when the key is missing
JGet(d, key) == IF DictHas(d.v, key) THEN DictGet(d.v, key) ELSE JNull

\* what "for r in results" yields: the items of a list, the characters of a
\* string, the keys of an object; Exc for a value that cannot be iterated
ItemsOf(results) ==
  CASE results.t = "list" -> Ok(results.v)
    [] results.t = "str" -> Ok([i \in DOMAIN results.v |-> JStr(<<results.v[i]>>)])
    [] results.t = "obj" -> Ok([i \in DOMAIN results.v |-> JStr(results.v[i].k)])
    [] OTHER -> Exc

\* pt = (r or {}).get("ParsedText") or "": Exc when r has no get
ParsedTextOf(r) ==
  IF OrValue(r, JObj(<<>>)).t # "obj" THEN Exc
  ELSE Ok(OrValue(JGet(OrValue(r, JObj(<<>>)), <<"P","a","r","s","e","d","T","e","x","t">>), JStr(<<>>)))

\* pt.strip() raises when pt is no string
TextsOf(pts) ==
  IF \E i \in DOMAIN pts : pts[i].exc \/ pts[i].val.t # "str" THEN Exc
  ELSE Ok(Strip(Join(SelectSeq(MapSeq(LAMBDA p : p.val.v, pts),
                               LAMBDA pt : Strip(pt) # <<>>),
                     <<"NL">>)))

ResultsText(items) ==
  IF items.exc THEN Exc ELSE TextsOf(MapSeq(ParsedTextOf, items.val))

PayloadText(payload) ==
  IF payload.t # "obj" THEN Exc
  ELSE IF ~Truthy(OrValue(JGet(payload, <<"P","a","r","s","e","d","R","e","s","u","l","t","s">>), JList(<<>>))) THEN Ok(<<>>)
  ELSE ResultsText(ItemsOf(JGet(payload, <<"P","a","r","s","e","d","R","e","s","u","l","t","s">>)))

\* the outcome of a call: Ok(text), or Exc when the call raises
ocrspace_extract_text(response) ==
  IF response.net = "error" THEN Ok(<<>>)
  ELSE IF ~response.valid THEN Ok(<<>>)
  ELSE PayloadText(response.json)

(***************************************************************************)
(* ocrspace_extract_text over the responses of the remote service          *)
(***************************************************************************)
MaxResults == 2

ParsedTexts == {JStr(<<>>), JStr(<<" ">>), JStr(<<"M","a","r","i","o">>), JStr(<<" ", "C", "V", "NL">>), JNull, JNum(5)}

ResultItems ==
  {JObj(<<[k |-> <<"P","a","r","s","e","d","T","e","x","t">>, v |-> pt]>>) : pt \in ParsedTexts}
    \cup {JObj(<<>>), JObj(<<[k |-> <<"E","r","r","o","r","M","e","s","s","a","g","e">>, v |-> JStr(<<"x">>)]>>), JNull, JNum(1), JStr(<<"x">>)}

ResultValues ==
  {JList(xs) : xs \in SeqsUpTo(ResultItems, MaxResults)}
    \cup {JNull, JStr(<<"a","b">>), JNum(3), JObj(<<[k |-> <<"a">>, v |-> JNull]>>)}

Payloads ==
  {JObj(<<[k |-> <<"P","a","r","s","e","d","R","e","s","u","l","t","s">>, v |-> r]>>) : r \in ResultValues}
    \cup {JObj(<<>>), JObj(<<[k |-> <<"I","s","E","r","r","o","r","e","d","O","n","P","r","o","c","e","s","s","i","n","g">>, v |-> JNum(1)]>>),
          JList(<<>>), JList(<<JObj(<<>>)>>), JNull, JStr(<<"e","r","r","o","r">>), JNum(1)}

Responses ==
  {[net |-> "error", valid |-> FALSE, json |-> JNull],
   [net |-> "ok", valid |-> FALSE, json |-> JNull]}
    \cup {[net |-> "ok", valid |-> TRUE, json |-> p] : p \in Payloads}

InitOcr ==
  /\ pc = "call"
  /\ callee = "ocrspace_extract_text"
  /\ arg \in {[language |-> l, response |-> r] : l \in {<<"i","t","a">>}, r \in Responses}
  /\ ret = NoValue

CallOcrspaceExtractText ==
  Returns("ocrspace_extract_text", ocrspace_extract_text(arg.response))

NextOcr == CallOcrspaceExtractText

SpecOcr == InitOcr /\ [][NextOcr]_vars

\* ParsedText is missing, null or a string of blanks
BlankText(r) ==
  \/ ~DictHas(r.v, <<"P","a","r","s","e","d","T","e","x","t">>)
  \/ DictGet(r.v, <<"P","a","r","s","e","d","T","e","x","t">>).t = "null"
  \/ DictGet(r.v, <<"P","a","r","s","e","d","T","e","x","t">>).t = "str" /\ Strip(DictGet(r.v, <<"P","a","r","s","e","d","T","e","x","t">>).v) = <<>>

\* ParsedResults is empty, no list of objects, or a list of objects with blank texts
NoResults(results) ==
  \/ results.t # "list"
  \/ \E i \in DOMAIN results.v : results.v[i].t # "obj"
  \/ \A i \in DOMAIN results.v : BlankText(results.v[i])

\* the remote call failed: network error, no JSON, no object, no usable results
RemoteFailure(response) ==
  \/ response.net = "error"
  \/ ~response.valid
  \/ response.json.t # "obj"
  \/ ~DictHas(response.json.v, <<"P","a","r","s","e","d","R","e","s","u","l","t","s">>)
  \/ NoResults(DictGet(response.json.v, <<"P","a","r","s","e","d","R","e","s","u","l","t","s">>))

\* C21: ocrspace_extract_text returns '' and does not raise on any failure of the
\* remote call: network error, a body that is no JSON, JSON that is no object or
\* whose ParsedResults is missing, empty or no list of objects, blank ParsedText
C21_OcrFailure ==
  Done("ocrspace_extract_text") /\ RemoteFailure(arg.response) =>
    ~ret.exc /\ ret.val = <<>>

\* a network error gives ''
C21_NetworkErrorReached ==
  /\ Done("ocrspace_extract_text")
  /\ arg.response.net = "error"
  /\ ret = Ok(<<>>)

\* two results with text are joined
C21_TextReached ==
  /\ Done("ocrspace_extract_text")
  /\ ~RemoteFailure(arg.response)
  /\ ret = Ok(<<"M","a","r","i","o","NL"," ","C","V">>)


(***************************************************************************)
(* parse_text_to_internal over texts of at most MaxSections sections, each *)
(* a title isolated by blank lines and a one-line body                     *)
(***************************************************************************)
MaxSections == 2

RootTitles ==
  {<<"E","S","P","E","R","I","E","N","Z","A"," ","L","A","V","O","R","A","T","I","V","A">>, <<"E","d","u","c","a","t","i","o","n">>, <<"F","o","r","m","a","z","i","o","n","e">>, <<"S","t","u","d","i","e","s">>, <<"L","a","n","g","u","a","g","e","s">>,
   <<"W","O","R","K">>, <<"S","k","i","l","l","s">>}

\* the body of the k-th section; the second has an e-mail address
RootBodies == <<<<"E","n","g","l","i","s","h"," ","B","2"," ","@"," ","A","c","m","e">>, <<"D","e","u","t","s","c","h"," ","A","1"," ","@"," ","B","e","t","a",","," ","a","n","n","a","@","b","e","t","a",".","d","e">>, <<"E","s","p","a","n","o","l"," ","C","1"," ","@"," ","G","a","m","m","a">>>>

RootText(titles) ==
  Join([k \in DOMAIN titles |-> titles[k] \o <<"NL">> \o RootBodies[k]], <<"NL", "NL">>)

InitRoots ==
  /\ pc = "call"
  /\ callee = "parse_text_to_internal"
  /\ arg \in {[text |-> RootText(ts), blocks |-> "None", filename |-> <<>>] :
                ts \in SeqsUpTo(RootTitles, MaxSections)}
  /\ ret = NoValue

NextRoots == CallParseTextToInternal

SpecRoots == InitRoots /\ [][NextRoots]_vars

ExperienceRoots ==
  <<<<"e","x","p","e","r","i","e","n">>, <<"e","m","p","l","o","y","m","e","n","t">>, <<"i","m","p","i","e","g","o">>, <<"b","e","r","u","f">>, <<"l","a","v","o","r">>, <<"c","a","r","e","e","r">>, <<"h","i","s","t","o","r","y">>, <<"w","o","r","k">>>>

EducationRoots ==
  <<<<"e","d","u","c","a","t">>, <<"f","o","r","m","a","z">>, <<"a","u","s","b","i","l","d">>, <<"s","t","u","d">>, <<"s","c","h","o","o","l">>, <<"u","n","i","v","e","r","s">>, <<"d","e","g","r","e","e">>, <<"t","r","a","i","n","i","n","g">>>>

LanguageRoots == <<<<"l","a","n","g">>>>

\* the title has a word that begins with one of the roots, letter case ignored
HasRoot(title, roots) ==
  Matches(Cat(<<WordB, Alt(MapSeq(Lit, roots))>>), title, TRUE)

\* the body of the first section, in document order, whose title has a root
RootSection(sections, roots) ==
  FirstOr(MapSeq(LAMBDA it : it.v, SelectSeq(sections, LAMBDA it : HasRoot(it.k, roots))),
          <<>>)

\* the non-noise lines before the first heading with an experience or education root
RootZone(all_lines) ==
  FirstN(all_lines,
         CutoffAt({i \in DOMAIN all_lines :
                     _is_heading(all_lines[i])
                       /\ HasRoot(all_lines[i], ExperienceRoots \o EducationRoots)}))

\* C22: for each category the orchestrator passes to the category's extractor the
\* body of the first section whose title contains one of the category's roots as
\* the beginning of a word, letter case ignored ('ESPERIENZA LAVORATIVA' contains
\* 'lavor', 'Education' 'educat', 'Formazione' 'formaz', 'Studies' 'stud',
\* 'Languages' 'language'); the same test ends the header zone of extract_contacts
C22_SectionRoots ==
  Done("parse_text_to_internal") =>
    \A sections \in {detect_sections(arg.text)} :
      /\ ret.esperienze_lavorative
           = extract_experience(RootSection(sections, ExperienceRoots))
      /\ ret.istruzione = extract_education(RootSection(sections, EducationRoots))
      /\ ret.competenze_linguistiche = LanguagesIn(RootSection(sections, LanguageRoots))
      /\ ret.contatti
           = ContactsOfLines(RootZone(NonNoise(SplitLines(norm(arg.text)))))

\* a title that is a root as a whole word is found: the body under 'WORK' is the
\* experience section
C22_WholeWordReached ==
  /\ Done("parse_text_to_internal")
  /\ arg.text = RootText(<<<<"W","O","R","K">>>>)
  /\ ret.esperienze_lavorative[1].azienda = <<"A","c","m","e">>


(***************************************************************************)
(* extract_contacts over long texts: ZoneLines short lines, one of them an *)
(* e-mail address and at most one a heading with an experience root        *)
(***************************************************************************)
ZoneLines == 205

\* the line number of the e-mail address
EmailAts == {1, 60, 119, 120, 121, 122, 130, 160, 199, 200, 201}

\* the line number of the heading 'WORK'; 0: no heading
HeadingAts == {0, 2, 100, 120, 121, 122, 150, 200, 201, 202}

ZoneText(e, h) ==
  TextOf(SubSeq([i \in 1..ZoneLines |->
                   IF i = e THEN <<"a","@","b",".","i","t">> ELSE IF i = h THEN <<"W","O","R","K">> ELSE <<"A","b">>],
                1, ZoneLines))

InitZone ==
  /\ pc = "call"
  /\ callee = "extract_contacts"
  /\ arg \in {[text |-> ZoneText(p[1], p[2])] :
                p \in {q \in EmailAts \X HeadingAts : q[1] # q[2]}}
  /\ ret = NoValue

NextZone == CallExtractContacts

SpecZone == InitZone /\ [][NextZone]_vars

\* the first min(HeaderZone, i) lines, i the number of lines before the first
\* heading-shaped line that matches the cutoff pattern
BoundedZone(all_lines) ==
  FirstN(all_lines,
         Min(HeaderZone,
             CutoffAt({i \in DOMAIN all_lines :
                         _is_heading(all_lines[i])
                           /\ Matches(CutoffRx, Lowered(all_lines[i]), TRUE)})))

\* C23: the lines extract_contacts searches are the first min(120, i) non-noise
\* lines, i the index of the first heading-shaped non-noise line matching an
\* experience/education root (infinity if none): the zone never exceeds 120 lines
\* and never contains a line at or after that heading
C23_HeaderZoneBound ==
  Done("extract_contacts") =>
    \A all_lines \in {NonNoise(SplitLines(norm(arg.text)))} :
      /\ Len(HeaderLines(all_lines)) <= HeaderZone
      /\ HeaderLines(all_lines) = BoundedZone(all_lines)
      /\ ret = ContactsOfLines(BoundedZone(all_lines))

\* the heading is the 150th line and the address of the 130th line is returned
C23_LateHeadingReached ==
  /\ Done("extract_contacts")
  /\ arg.text = ZoneText(130, 150)
  /\ ret.email = <<"a","@","b",".","i","t">>


(***************************************************************************)
(* _is_heading over every line of at most MaxHeadingChars characters and   *)
(* over longer lines at the limits of the rules                            *)
(***************************************************************************)
MaxHeadingChars == 4

HeadingChars == {"A", "b", " ", ":", "@", "1"}

LineOf(c, n) == SubSeq([i \in 1..n |-> c], 1, n)

HeadingExtras ==
  {LineOf("A", MaxHeadingLen), LineOf("A", MaxHeadingLen + 1),
   LineOf("A", MaxHeadingLen - 1) \o <<" "," ","B">>, LineOf("A", MaxHeadingLen) \o <<" ","B">>,
   <<"h","t","t","p",":","/","/","A","b">>, <<"A","b"," ","1","2","3","4","5">>, <<"A","b"," ","1","2","3","4">>, <<"A","b"," ","C","d"," ","E","f"," ","g","h">>, <<"A","b"," ","C","d"," ","e","f"," ","g","h">>,
   <<"A","a"," ","B","b"," ","C","c"," ","D","d"," ","E","e"," ","F","f"," ","G","g"," ","h","h"," ","i","i"," ","j","j">>, <<"A","a"," ","B","b"," ","C","c"," ","D","d"," ","E","e"," ","F","f"," ","g","g"," ","h","h"," ","i","i"," ","j","j">>, <<"A","B"," ","C","D"," ","1","2">>,
   <<"a","b">>, <<"1","2"," ","3","4">>}

InitHeading ==
  /\ pc = "call"
  /\ callee = "_is_heading"
  /\ arg \in {[line |-> l] : l \in SeqsUpTo(HeadingChars, MaxHeadingChars) \cup HeadingExtras}
  /\ ret = NoValue

CallIsHeading == Returns("_is_heading", _is_heading(arg.line))

NextHeading == CallIsHeading

SpecHeading == InitHeading /\ [][NextHeading]_vars

\* the rules of the heading shape on a line t, of at least 'least' characters
StatedShape(t, least) ==
  /\ Len(t) \in least..MaxHeadingLen
  /\ t[Len(t)] # ":"
  /\ \A i \in DOMAIN t : t[i] # "@"
  /\ ~\E i \in 1..(Len(t) - 2) : <<t[i], t[i + 1], t[i + 2]>> = <<":","/","/">>
  /\ ~\E i \in 1..(Len(t) - 4) : \A j \in 0..4 : t[i + j] \in Digit
  /\ \A words \in {FindAll(HeadingWordRx, t, FALSE)} :
       /\ Len(words) >= 1
       /\ \/ (\E i \in DOMAIN t : t[i] \in Upper) /\ (\A i \in DOMAIN t : t[i] \notin Lower)
          \/ 100 * Cardinality({i \in DOMAIN words : words[i][1] \in Upper}) >= 70 * Len(words)

GroupLinkedins ==
  {<<>>, <<"h","t","t","p","s",":","/","/","l","i","n","k","e","d","i","n",".","c","o","m","/","i","n","/","a","n","n","a","-","r","o","s","s","i">>, <<"h","t","t","p","s",":","/","/","l","i","n","k","e","d","i","n",".","c","o","m","/","i","n","/","a","n","n","a","-","m","a","r","i","a","-","r","o","s","s","i">>,
   <<"h","t","t","p","s",":","/","/","l","i","n","k","e","d","i","n",".","c","o","m","/","i","n","/","m","a","r","i","a","-","r","o","s","s","i">>, <<"h","t","t","p","s",":","/","/","l","i","n","k","e","d","i","n",".","c","o","m","/","i","n","/","m","a","r","i","o","-","b","i","a","n","c","h","i">>}

GroupEmails ==
  {<<>>, <<"a","n","n","a",".","r","o","s","s","i","@","x",".","i","t">>, <<"a","n","n","a",".","m","a","r","i","a",".","r","o","s","s","i","@","x",".","i","t">>, <<"m","a","r","i","a",".","r","o","s","s","i","@","x",".","i","t">>, <<"r","o","s","s","i",".","a","n","n","a","@","x",".","i","t">>,
   <<"m","a","r","i","o",".","b","i","a","n","c","h","i","@","x",".","i","t">>}

GroupFilenames ==
  {<<>>, <<"A","n","n","a"," ","R","o","s","s","i",".","p","d","f">>, <<"A","n","n","a","_","M","a","r","i","a","_","R","o","s","s","i",".","p","d","f">>, <<"M","a","r","i","a"," ","R","o","s","s","i",".","p","d","f">>, <<"R","O","S","S","I"," ","A","n","n","a",".","p","d","f">>,
   <<"M","a","r","i","o"," ","B","i","a","n","c","h","i",".","p","d","f">>}

InitGroups ==
  /\ pc = "call"
  /\ callee = "infer_name"
  /\ arg \in [blocks : {"None"}, email : GroupEmails, linkedin : GroupLinkedins,
              filename : GroupFilenames, section_titles : {"None"}]
  /\ ret = NoValue

NextGroups == CallInferName

SpecGroups == InitGroups /\ [][NextGroups]_vars

\* the canonical token set of one candidate is a subset of the other's
Equivalent(a, b) ==
  \A A \in {{Lowered(a.toks[i]) : i \in DOMAIN a.toks}} :
    \A B \in {{Lowered(b.toks[i]) : i \in DOMAIN b.toks}} : A \subseteq B \/ B \subseteq A

SameGroup(groups, a, b) ==
  \E g \in DOMAIN groups :
    \E i, j \in DOMAIN groups[g] : groups[g][i] = a /\ groups[g][j] = b

GroupedByEquivalence(cands, groups) ==
  \A i, j \in DOMAIN cands :
    i # j => (SameGroup(groups, cands[i], cands[j]) <=> Equivalent(cands[i], cands[j]))

\* C25 as stated: two candidates are in the same group iff they are equivalent,
\* for every combination of three candidates
C25_GroupsAsStated ==
  Done("infer_name") => GroupedByEquivalence(ArgCands, BuildGroups(ArgCands))

\* C25, amended: every candidate is in one group; a member of a group is
\* equivalent to the first member of its group and to the first member of no
\* earlier group; with at most two candidates, two candidates are in the same
\* group iff they are equivalent
C25_Groups ==
  Done("infer_name") =>
    \A groups \in {BuildGroups(ArgCands)} :
      /\ \A i \in DOMAIN ArgCands :
           Cardinality({g \in DOMAIN groups :
                          \E k \in DOMAIN groups[g] : groups[g][k] = ArgCands[i]}) = 1
      /\ \A g \in DOMAIN groups :
           \A k \in DOMAIN groups[g] :
             /\ Equivalent(groups[g][k], groups[g][1])
             /\ \A h \in 1..(g - 1) : ~Equivalent(groups[g][k], groups[h][1])
      /\ Len(ArgCands) <= 2 => GroupedByEquivalence(ArgCands, groups)

\* three candidates in one group: the second and the third are both included in
\* the first and are not equivalent to one another
C25_Witness ==
  /\ Done("infer_name")
  /\ arg.linkedin = <<"h","t","t","p","s",":","/","/","l","i","n","k","e","d","i","n",".","c","o","m","/","i","n","/","a","n","n","a","-","m","a","r","i","a","-","r","o","s","s","i">>
  /\ arg.email = <<"a","n","n","a",".","r","o","s","s","i","@","x",".","i","t">>
  /\ arg.filename = <<"M","a","r","i","a"," ","R","o","s","s","i",".","p","d","f">>
  /\ Len(BuildGroups(ArgCands)) = 1
  /\ Len(BuildGroups(ArgCands)[1]) = 3
  /\ ~Equivalent(ArgCands[2], ArgCands[3])


\* the result is the capitalized token list of a member of a group with at least
\* two distinct sources
FromConsensus(groups, name) ==
  \E g \in DOMAIN groups :
    /\ Cardinality(Sources(groups[g])) >= 2
    /\ \E k \in DOMAIN groups[g] : name = NameOf(groups[g][k].toks)

SomeEquivalent(cands) ==
  \E i, j \in DOMAIN cands : i # j /\ Equivalent(cands[i], cands[j])

\* the candidate of the first source present in the order linkedin, email, filename
TopCandidate(cands) ==
  IF \E i \in DOMAIN cands : cands[i].src = "linkedin"
  THEN cands[CHOOSE i \in DOMAIN cands : cands[i].src = "linkedin"]
  ELSE IF \E i \in DOMAIN cands : cands[i].src = "email"
  THEN cands[CHOOSE i \in DOMAIN cands : cands[i].src = "email"]
  ELSE cands[CHOOSE i \in DOMAIN cands : cands[i].src = "filename"]

\* C28: the result comes from a group with at least 2 distinct sources iff at
\* least two of the candidates are equivalent; when no two candidates are
\* equivalent the result is the highest-priority single candidate; a non-empty
\* result is the capitalized token list of one of the candidates
C28_ConsensusIffAgreement ==
  Done("infer_name") =>
    \A groups \in {BuildGroups(ArgCands)} :
      /\ HasConsensus(groups) <=> SomeEquivalent(ArgCands)
      /\ SomeEquivalent(ArgCands) => FromConsensus(groups, ret)
      /\ (ArgCands # <<>> /\ ~SomeEquivalent(ArgCands)) =>
           ret = NameOf(TopCandidate(ArgCands).toks)
      /\ ret # <<<<>>, <<>>>> =>
           \E i \in DOMAIN ArgCands : ret = NameOf(ArgCands[i].toks)

\* the e-mail and the file name agree with one another and not with LinkedIn: the
\* result is theirs, not that of the LinkedIn candidate
C28_Witness ==
  /\ Done("infer_name")
  /\ arg.linkedin = <<"h","t","t","p","s",":","/","/","l","i","n","k","e","d","i","n",".","c","o","m","/","i","n","/","m","a","r","i","o","-","b","i","a","n","c","h","i">>
  /\ arg.email = <<"a","n","n","a",".","m","a","r","i","a",".","r","o","s","s","i","@","x",".","i","t">>
  /\ arg.filename = <<"M","a","r","i","a"," ","R","o","s","s","i",".","p","d","f">>
  /\ SomeEquivalent(ArgCands)
  /\ ret = <<<<"M","a","r","i","a">>, <<"R","o","s","s","i">>>>


(***************************************************************************)
(* extract_experience and extract_education over one-paragraph texts whose *)
(* header is made of at most MaxHeaderParts parts                          *)
(***************************************************************************)
MaxHeaderParts == 3

\* words, the separators '@', ' - ', ' – ', ' — ', a dash with no blanks and a
\* dash after a no-break space
HeaderParts ==
  {<<"A","b">>, <<"C","d">>, <<"@">>, <<" ","-"," ">>, <<" ","ENDASH"," ">>, <<" ","EMDASH"," ">>, <<"-">>, <<"NBSP", "-", " ">>}

HeaderOf(parts) == FlatMap(LAMBDA p : p, parts)

\* both kinds of separator; a dash after a no-break space before a ' - '; a
\* header of capitalized words, alone and before the line of a city
HeaderExtras ==
  {<<"A","b"," ","-"," ","C","d","@","E","f">>, <<"A","b","@","C","d"," ","-"," ","E","f">>, <<"A","b"," ","ENDASH"," ","C","d"," ","-"," ","E","f">>, <<"A", "b", "NBSP", "-", " ">> \o <<"C","d"," ","-"," ","E","f">>,
   <<"A","b","TAB","-"," ","C","d"," ","EMDASH"," ","E","f">>, <<"S","o","f","t","w","a","r","e"," ","E","n","g","i","n","e","e","r">>, <<"S","o","f","t","w","a","r","e"," ","E","n","g","i","n","e","e","r","NL","M","i","l","a","n","o">>,
   <<"S","o","f","t","w","a","r","e"," ","E","n","g","i","n","e","e","r"," ","@"," ","A","c","m","e","NL","2","0","2","0"," ","-"," ","2","0","2","1","NL","M","i","l","a","n","o","NL","R","o","m","a">>}

\* the header alone, with a second line, and after a line of noise
HeaderTexts(header) ==
  {header, header \o <<"NL","E","f">>, <<"-","-","NL">> \o header}

InitHeaders ==
  /\ pc = "call"
  /\ callee \in {"extract_experience", "extract_education"}
  /\ arg \in {[section_text |-> t] :
                t \in UNION {HeaderTexts(HeaderOf(ps)) :
                               ps \in SeqsUpTo(HeaderParts, MaxHeaderParts)}
                        \cup HeaderExtras}
  /\ ret = NoValue

NextHeaders == CallExtractExperience \/ CallExtractEducation

SpecHeaders == InitHeaders /\ [][NextHeaders]_vars

DashSeparators == {<<" ","-"," ">>, <<" ","ENDASH"," ">>, <<" ","EMDASH"," ">>}

SeparatorAt(header) ==
  {i \in 1..(Len(header) - 2) : SubSeq(header, i, i + 2) \in DashSeparators}

\* <<title, institution>> of a header: '@' first, then the first ' - ', ' – ', ' — '
StatedSplit(header) ==
  IF \E i \in DOMAIN header : header[i] = "@"
  THEN LET i == MinOf({k \in DOMAIN header : header[k] = "@"})
       IN  <<EntryStrip(SubSeq(header, 1, i - 1)),
             EntryStrip(SubSeq(header, i + 1, Len(header)))>>
  ELSE IF SeparatorAt(header) # {}
  THEN LET i == MinOf(SeparatorAt(header))
       IN  <<EntryStrip(SubSeq(header, 1, i - 1)),
             EntryStrip(SubSeq(header, i + 3, Len(header)))>>
  ELSE <<EntryStrip(header), <<>>>>

\* the first non-noise line of each paragraph that has one
Headers(section_text) ==
  MapSeq(LAMBDA ls : ls[1], ParagraphLines(_paragraphs(section_text)))

HeadOfEntry(entry) ==
  IF callee = "extract_experience" THEN <<entry.posizione, entry.azienda>>
  ELSE <<entry.titolo_studio, entry.istituto>>

\* C26: the first non-noise line of a paragraph is its header; with an '@' the
\* text left of the first '@' is the title/position and the text right of it the
\* institution/company; otherwise with ' - ', ' – ' or ' — ' it is split the same
\* way at the first such separator; otherwise the whole header is the title and
\* the institution/company is ''
C26_HeaderSplit ==
  (Done("extract_experience") \/ Done("extract_education")) =>
    \A headers \in {Headers(arg.section_text)} :
      headers # <<>> =>
        /\ Len(ret) = Len(headers)
        /\ \A k \in DOMAIN headers : HeadOfEntry(ret[k]) = StatedSplit(headers[k])

\* the header has both separators and is split at the '@'
C26_AtFirstReached ==
  /\ Done("extract_experience")
  /\ arg.section_text = <<"A","b"," ","-"," ","C","d","@","E","f">>
  /\ ret[1].posizione = <<"A","b"," ","-"," ","C","d">>
  /\ ret[1].azienda = <<"E","f">>

(***************************************************************************)
(* infer_name with and without layout blocks and section titles            *)
(***************************************************************************)
\* an optional list: None, or the list
Absent == [given |-> FALSE, items |-> <<>>]

ListOf(items) == [given |-> TRUE, items |-> items]

\* a line of the PDF with its typography, as extract_text_and_blocks gives it
LayoutBlock(text, font_size) == [text |-> text, font_size |-> font_size, page |-> 1]

LayoutBlocks ==
  {Absent, ListOf(<<>>), ListOf(<<LayoutBlock(<<"M","a","r","i","o"," ","B","i","a","n","c","h","i">>, 20)>>),
   ListOf(<<LayoutBlock(<<"C","u","r","r","i","c","u","l","u","m"," ","V","i","t","a","e">>, 24), LayoutBlock(<<"A","n","n","a"," ","R","o","s","s","i">>, 18)>>)}

SectionTitles == {Absent, ListOf(<<>>), ListOf(<<<<"M","a","r","i","o"," ","B","i","a","n","c","h","i">>, <<"W","O","R","K">>>>)}

InitBlocks ==
  /\ pc = "call"
  /\ callee = "infer_name"
  /\ arg \in [blocks : LayoutBlocks, email : GroupEmails, linkedin : GroupLinkedins,
              filename : {<<>>, <<"M","a","r","i","a"," ","R","o","s","s","i",".","p","d","f">>}, section_titles : SectionTitles]
  /\ ret = NoValue

NextBlocks == CallInferName

SpecBlocks == InitBlocks /\ [][NextBlocks]_vars

PostalTokens(top) ==
  SelectSeq(FindAll(Cap46Rx, top, FALSE), LAMBDA t : ~IsCalendarYear(t))

\* C29: when the resolved country is not Italy and the first 80 header-zone lines
\* have a standalone token of 4 to 6 digits outside 1900..2099, extract_contacts
\* returns the first such token as cap, even if a calendar-year token occurs
\* earlier in the zone
C29_PostalCodeFound ==
  Done("extract_contacts") =>
    \A tokens \in {PostalTokens(TopText(arg.text))} :
      (Lowered(ret.indirizzo.paese) # <<"i","t","a","l","y">> /\ tokens # <<>>) =>
        ret.indirizzo.cap = tokens[1]

\* a year on the first line and a postal code on the second: no cap is returned
C29_YearFirstReached ==
  /\ Done("extract_contacts")
  /\ arg.text = <<"2","0","2","1","NL","4","1","0","1","2">>
  /\ ret.indirizzo.paese = <<>>
  /\ ret.indirizzo.cap = <<>>


\* the first of the lines that looks like a city, '' if none
FirstCityOf(lines) ==
  FirstOr(SelectSeq(MapSeq(_looks_like_city, lines), LAMBDA c : c # None), <<>>)

\* the lines of a paragraph that _first_city reads, without the header
AfterHeader(lines) == SubSeq(lines, 2, Min(Len(lines), 3))

\* C30: in every entry of extract_experience and extract_education a non-empty
\* citta is taken from a line after the header line of the paragraph: the entry's
\* own header, e.g. 'Software Engineer', is never reported as the city
C30_CityAfterHeader ==
  (Done("extract_experience") \/ Done("extract_education")) =>
    \A paras \in {ParagraphLines(_paragraphs(arg.section_text))} :
      paras # <<>> =>
        /\ Len(ret) = Len(paras)
        /\ \A k \in DOMAIN paras : ret[k].citta = FirstCityOf(AfterHeader(paras[k]))

\* the header is the only line of the paragraph and is the city of the entry
C30_HeaderAsCityReached ==
  /\ Done("extract_experience")
  /\ arg.section_text = <<"S","o","f","t","w","a","r","e"," ","E","n","g","i","n","e","e","r">>
  /\ ret[1].posizione = <<"S","o","f","t","w","a","r","e"," ","E","n","g","i","n","e","e","r">>
  /\ ret[1].citta = <<"S","o","f","t","w","a","r","e"," ","E","n","g","i","n","e","e","r">>

=============================================================================
